---- MODULE Spec2Model ----
(***************************************************************************)
(* A model of the OCR engine vendored in paavohuhtala/meemi_kansio         *)
(* (src/vendor/ocr-rs): box post-processing, greedy CTC decoding, batched  *)
(* and parallel recognition, and the engine's recognize pipeline.          *)
(*                                                                         *)
(* Numbers: scores and confidences are f32 in the source.  The model keeps *)
(* them as integers in hundredths and keeps every quotient as the pair     *)
(* <<numerator, denominator>>, comparing by cross-multiplication, so that  *)
(* no comparison of the source is decided by a rounding of the model.      *)
(***************************************************************************)
EXTENDS Integers, Sequences, FiniteSets, TLC

VARIABLES
    \* ---- postprocess.rs: nms ----
    nmsPc,        \* "idle" | "done"
    nmsBoxes,     \* the boxes handed to nms
    nmsThr,       \* iou_threshold as <<numerator, denominator>>
    nmsOut,       \* what nms returned
    \* ---- rec.rs: decode_output ----
    decPc,        \* "idle" | "done"
    decRows,      \* the output tensor: one row of class probabilities per time step
    decOpts,      \* the RecOptions of the model
    decRes,       \* the RecognitionResult returned
    \* ---- the inference capability behind a RecModel (mnn/mod.rs) ----
    net,          \* how the loaded network answers: fixed once the model is built
    \* ---- rec.rs: recognize_batch ----
    recPc,        \* "idle" | "done"
    recImages,    \* the images handed to recognize_batch
    recOpts,      \* the RecOptions of the model
    recOut,       \* the OcrResult<Vec<RecognitionResult>> returned
    \* ---- engine.rs: OcrEngine::recognize ----
    engPc,        \* "idle" | "par" (tasks forked, not joined) | "done"
    engConfig,    \* the OcrEngineConfig of the engine
    engDetected,  \* what detect_and_crop returned for the image
    engTasks,     \* parallel path: task i is "pending" | "done" | "skipped"
    engSlots,     \* parallel path: what the finished task of crop i returned
    engOrder,     \* parallel path: the crops in the order their tasks finished
    engRec,       \* rec_results, or the error of the recognition step
    engRecCalls,  \* calls made of the recognition model
    engInfer,     \* images in each run_dynamic call made of its network, in order
    engOut,       \* the OcrResult<Vec<OcrResult_>> returned
    \* ---- mnn/mod.rs: run_dynamic called by several threads ----
    infPc,        \* thread t is "idle" | "call" | "called" | "done"
    infInput,     \* the tensor thread t passes to run_dynamic
    infLocal,     \* the locals of thread t's call: error_code, output_data
    infHeap,      \* the native heap: address -> an output buffer, or a free cell
    infOut,       \* what run_dynamic returned to thread t
    \* ---- ori.rs: class_to_angle ----
    ctaPc,        \* "idle" | "done"
    ctaArgs,      \* num_classes, class_idx, class_angles
    ctaOut,       \* the angle returned
    \* ---- engine.rs: the orientation step of recognize ----
    oriPc,        \* "idle" | "done"
    oriIn,        \* the engine's config and orientation model, the network's
                  \* answer for the image, and the caller's image
    oriOut,       \* corrected_image, the image handed to detection
    \* extract_boxes_with_unclip
    extPc,        \* "off" | "start" | "done"
    extIn,        \* the arguments of the call
    extSteps,     \* the locals of each iteration of the loop over contours
    extOut,       \* the boxes returned
    \* DetModel::detect and RecModel::recognize on an answer of run_dynamic
    detPc,        \* "off" | "start" | "done"
    detIn,        \* the operation, its options and image, the answer
    detOut,       \* the result, or Abort(..) for a call that panicked
    \* RecModel::parse_charset and RecModel::from_bytes_with_charset
    csPc,         \* "off" | "start" | "parsed" | "built"
    csIn,         \* the engine from_buffer gives, the charset bytes
    csOut,        \* the result of the call
    \* OcrEngineConfig
    cfgPc,        \* "off" | "new" (Default) | "fast" (the preset) | "set" (after with_*)
    cfg,          \* the configuration
    \* merge_adjacent_boxes
    mrgPc,        \* "off" | "start" | "done"
    mrgIn,        \* the boxes and the distance threshold
    mrgOut,       \* the boxes returned
    \* group_boxes_by_line
    linePc,       \* "off" | "start" | "done"
    lineIn,       \* the boxes and line_threshold
    lineOut,      \* the lines returned
    \* compute_iou
    iouPc,        \* "off" | "start" | "done"
    iouIn,        \* the two rectangles
    iouOut,       \* the quotient returned
    \* TextBox::expand and the loop of DetModel::detect_and_crop
    expPc,        \* "off" | "start" | "done"
    expIn,        \* the image's size, the boxes detect returned, box_border
    expOut,       \* the (crop, box) pairs returned
    \* OcrEngine::recognize, from the caller's image to the boxes returned
    frmPc,        \* "off" | "idle" | "done"
    frmIn,        \* the engine's configuration and the caller's image
    frmCorrected, \* corrected_image, the image handed to detect_and_crop
    frmOut,       \* the boxes of the results returned
    \* backend: replace_file and the tasks of spawn_ocr_task on one media item
    rplPc,        \* "off" | "idle" | "selected" | "stored" | "deleted" | "updated" | "done"
    rplOld,       \* old_media.file_path, "none" before the SELECT
    mediaRow,     \* the row of the item: file_path and ocr_text
    storage,      \* the files the storage backend holds
    ocrTasks,     \* the spawned tasks: position, file, what recognize returned
    ocrTexts      \* what recognize returns for each file

nmsVars == <<nmsPc, nmsBoxes, nmsThr, nmsOut>>
decVars == <<decPc, decRows, decOpts, decRes>>
recVars == <<recPc, recImages, recOpts, recOut>>
engVars == <<engPc, engConfig, engDetected, engTasks, engSlots, engOrder,
             engRec, engRecCalls, engInfer, engOut>>

infVars == <<infPc, infInput, infLocal, infHeap, infOut>>

ctaVars == <<ctaPc, ctaArgs, ctaOut>>
oriVars == <<oriPc, oriIn, oriOut>>

extVars == <<extPc, extIn, extSteps, extOut>>
detVars == <<detPc, detIn, detOut>>

csVars == <<csPc, csIn, csOut>>

cfgVars == <<cfgPc, cfg>>

mrgVars == <<mrgPc, mrgIn, mrgOut>>

lineVars == <<linePc, lineIn, lineOut>>

iouVars == <<iouPc, iouIn, iouOut>>

expVars == <<expPc, expIn, expOut>>

frmVars == <<frmPc, frmIn, frmCorrected, frmOut>>

bgVars == <<rplPc, rplOld, mediaRow, storage, ocrTasks, ocrTexts>>

vars == <<nmsVars, decVars, net, recVars, engVars, infVars, ctaVars, oriVars,
         extVars, detVars, csVars, cfgVars, mrgVars, lineVars, iouVars,
         expVars, frmVars, bgVars>>

(***************************************************************************)
(* Helpers on sequences and numbers                                        *)
(***************************************************************************)
Max2(a, b) == IF a >= b THEN a ELSE b
Min2(a, b) == IF a <= b THEN a ELSE b

SeqsUpTo(S, n) == UNION {[1..k -> S] : k \in 0..n}

RECURSIVE SumSeq(_)
SumSeq(s) == IF s = <<>> THEN 0 ELSE Head(s) + SumSeq(Tail(s))

(***************************************************************************)
(* postprocess.rs: TextBox, compute_iou, compute_containment_ratio, nms    *)
(***************************************************************************)
\* imageproc Rect::at(x, y).of_size(w, h)
Rect(l, t, w, h) == [left |-> l, top |-> t, width |-> w, height |-> h]

\* TextBox::new(rect, score)
TextBox(r, s) == [rect |-> r, score |-> s]

\* TextBox::area
Area(b) == b.rect.width * b.rect.height

\* The intersection area of two rectangles, 0 when x2 <= x1 or y2 <= y1
\* (the early return shared by compute_iou and compute_containment_ratio).
Intersection(a, b) ==
    LET x1 == Max2(a.left, b.left)
        y1 == Max2(a.top, b.top)
        x2 == Min2(a.left + a.width, b.left + b.width)
        y2 == Min2(a.top + a.height, b.top + b.height)
    IN  IF x2 <= x1 \/ y2 <= y1 THEN 0 ELSE (x2 - x1) * (y2 - y1)

ComputeIouOverSum(a, b) ==
    LET inter == Intersection(a, b)
        sum == a.width * a.height + b.width * b.height
    IN  IF inter = 0 \/ sum <= 0 THEN <<0, 1>> ELSE <<inter, sum>>

\* compute_iou as the quotient <<intersection, union>>; 0 is <<0, 1>>.
ComputeIou(a, b) ==
    LET inter == Intersection(a, b)
        union == a.width * a.height + b.width * b.height - inter
    IN  IF inter = 0 \/ union <= 0 THEN <<0, 1>> ELSE <<inter, union>>

\* compute_containment_ratio(inner, outer) as <<intersection, inner area>>.
ComputeContainmentRatio(inner, outer) ==
    LET inter == Intersection(inner, outer)
        innerArea == inner.width * inner.height
    IN  IF inter = 0 \/ innerArea <= 0 THEN <<0, 1>> ELSE <<inter, innerArea>>

\* q > n/d for a quotient q = <<a, b>> with b > 0, d > 0
QGreater(q, n, d) == q[1] * d > n * q[2]

\* The comparator of nms's sort_by: Less when a goes before b
\* (score descending, then area descending).
NmsBefore(a, b) ==
    \/ a.score > b.score
    \/ a.score = b.score /\ Area(a) > Area(b)

\* Insertion of index x into an index list sorted by NmsBefore, after every
\* element it does not go before: slice::sort_by is stable.
RECURSIVE NmsInsert(_, _, _)
NmsInsert(boxes, x, sorted) ==
    IF sorted = <<>> THEN <<x>>
    ELSE IF NmsBefore(boxes[x], boxes[Head(sorted)]) THEN <<x>> \o sorted
    ELSE <<Head(sorted)>> \o NmsInsert(boxes, x, Tail(sorted))

RECURSIVE NmsSortFrom(_, _, _)
NmsSortFrom(boxes, k, sorted) ==
    IF k > Len(boxes) THEN sorted
    ELSE NmsSortFrom(boxes, k + 1, NmsInsert(boxes, k, sorted))

\* indices.sort_by(...) of nms
NmsSortedIndices(boxes) == NmsSortFrom(boxes, 1, <<>>)

\* The tests of the sweep without the reverse containment test.
NmsSuppressesOneWay(bi, bj, thr) ==
    \/ QGreater(ComputeIou(bi.rect, bj.rect), thr[1], thr[2])
    \/ QGreater(ComputeContainmentRatio(bj.rect, bi.rect), 1, 2)

\* The three tests of nms's inner loop: kept box i suppresses later box j.
NmsSuppresses(bi, bj, thr) ==
    \/ QGreater(ComputeIou(bi.rect, bj.rect), thr[1], thr[2])
    \/ QGreater(ComputeContainmentRatio(bj.rect, bi.rect), 1, 2)
    \/ QGreater(ComputeContainmentRatio(bi.rect, bj.rect), 7, 10)

\* The sweep of nms over the sorted indices from position pos.
RECURSIVE NmsSweep(_, _, _, _, _, _)
NmsSweep(boxes, thr, order, pos, suppressed, keep) ==
    IF pos > Len(order) THEN keep
    ELSE LET i == order[pos] IN
         IF i \in suppressed
         THEN NmsSweep(boxes, thr, order, pos + 1, suppressed, keep)
         ELSE NmsSweep(boxes, thr, order, pos + 1,
                       suppressed \cup
                           {order[q] : q \in {p \in (pos + 1)..Len(order) :
                               /\ order[p] \notin suppressed
                               /\ NmsSuppresses(boxes[i], boxes[order[p]], thr)}},
                       Append(keep, boxes[i]))

\* nms with the kept boxes pushed to the front of keep instead of its back.
NmsKeepReversed(boxes, thr) ==
    IF boxes = <<>> THEN <<>>
    ELSE LET k == NmsSweep(boxes, thr, NmsSortedIndices(boxes), 1, {}, <<>>)
         IN  [i \in 1..Len(k) |-> k[Len(k) + 1 - i]]

\* nms(boxes, iou_threshold)
Nms(boxes, thr) ==
    IF boxes = <<>> THEN <<>>
    ELSE NmsSweep(boxes, thr, NmsSortedIndices(boxes), 1, {}, <<>>)

(***************************************************************************)
(* Bounds and input sets of the nms specification                          *)
(***************************************************************************)
MaxBoxes == 3

NmsLefts == {0, 2}
NmsWidths == {2, 4}
NmsHeights == {1, 2}
NmsScores == {90, 100}

NmsRects == {Rect(l, 0, w, h) : l \in NmsLefts, w \in NmsWidths, h \in NmsHeights}
NmsBoxSet == {TextBox(r, s) : r \in NmsRects, s \in NmsScores}

\* iou_threshold: DetOptions' default 0.3, and 0.5
NmsThresholds == {<<3, 10>>, <<1, 2>>}

NmsIdle ==
    /\ nmsPc = "off"
    /\ nmsBoxes = <<>>
    /\ nmsThr = <<3, 10>>
    /\ nmsOut = <<>>

NmsInit ==
    /\ nmsPc = "idle"
    /\ nmsBoxes \in SeqsUpTo(NmsBoxSet, MaxBoxes)
    /\ nmsThr \in NmsThresholds
    /\ nmsOut = <<>>

\* A call nms(&boxes, iou_threshold)
NmsCall ==
    /\ nmsPc = "idle"
    /\ nmsOut' = Nms(nmsBoxes, nmsThr)
    /\ nmsPc' = "done"
    /\ UNCHANGED <<nmsBoxes, nmsThr>>

(***************************************************************************)
(* rec.rs: RecOptions, PUNCTUATIONS, decode_output                         *)
(***************************************************************************)
\* PUNCTUATIONS (its ASCII members; the charsets of the model hold no other)
Punctuations ==
    {",", ".", "!", "?", ";", ":", "\"", "'", "(", ")", "[", "]", "{", "}",
     "-", "_", "/", "\\", "|", "@", "#", "$", "%", "&", "*", "+", "=", "~"}

\* RecModel::is_punctuation
IsPunctuation(ch) == ch \in Punctuations

\* RecOptions::default(): min_score 0.3, punct_min_score 0.1, batch_size 8,
\* enable_batch true (scores in hundredths)
RecOptionsDefault ==
    [min_score |-> 30, punct_min_score |-> 10, batch_size |-> 8, enable_batch |-> TRUE]

\* The charset of the recognition model, as parse_charset builds it from a
\* file holding "a" and ",": the blank, the file's characters, the pad token.
\* Class k of the network is charset[k + 1] (Vec indices count from 0).
Charset == <<" ", "a", ",", " ">>

\* The class count of the network's output: one more than the charset holds,
\* so that the bound check of decode_output (max_idx < charset.len()) decides.
NumClasses == Len(Charset) + 1

Classes == 0..(NumClasses - 1)

\* probs.iter().enumerate().max_by(partial_cmp): the index of the greatest
\* probability, the last one among equals.
ArgMax(row) ==
    CHOOSE c \in DOMAIN row :
        /\ \A d \in DOMAIN row : row[d] <= row[c]
        /\ \A d \in DOMAIN row : row[d] = row[c] => d <= c

\* The threshold test of decode_output with >= replaced by >.
DecodeKeepsStrict(ch, score, opts) ==
    score > (IF IsPunctuation(ch) THEN opts.punct_min_score ELSE opts.min_score)

\* The threshold test of decode_output: punct_min_score for a punctuation
\* mark, min_score otherwise; kept when score >= threshold.
DecodeKeeps(ch, score, opts) ==
    score >= (IF IsPunctuation(ch) THEN opts.punct_min_score ELSE opts.min_score)

\* prev_idx updated only by a non-blank step.
DecodePrevSkippingBlank(maxIdx, prevIdx) ==
    IF maxIdx = 0 THEN prevIdx ELSE maxIdx

\* prev_idx updated only by a step whose class has a character.
DecodePrevInsideCharset(maxIdx, prevIdx) ==
    IF maxIdx >= Len(Charset) THEN prevIdx ELSE maxIdx

\* prev_idx = max_idx, at the end of every iteration of the loop.
DecodePrev(maxIdx, prevIdx) == maxIdx

\* The CTC loop of decode_output from time step t (counted from 1), with the
\* char_scores collected so far.
RECURSIVE DecodeLoop(_, _, _, _, _, _)
DecodeLoop(rows, charset, opts, t, prevIdx, charScores) ==
    IF t > Len(rows) THEN charScores
    ELSE LET maxIdx == ArgMax(rows[t])
             maxProb == rows[t][maxIdx]
             emitted ==
                 IF /\ maxIdx # 0
                    /\ maxIdx # prevIdx
                    /\ maxIdx < Len(charset)
                    /\ DecodeKeeps(charset[maxIdx + 1], maxProb, opts)
                 THEN Append(charScores, <<charset[maxIdx + 1], maxProb>>)
                 ELSE charScores
         IN  DecodeLoop(rows, charset, opts, t + 1, DecodePrev(maxIdx, prevIdx), emitted)

\* RecognitionResult::new(text, confidence, char_scores); the text is the
\* sequence of its characters, the confidence the quotient <<sum, count>>.
RecognitionResult(text, confidence, charScores) ==
    [text |-> text, confidence |-> confidence, char_scores |-> charScores]

\* decode_output on the rows of one sample: the loop, the mean of the kept
\* scores (0.0 when none is kept) and the text collected from char_scores.
DecodeRows(rows, charset, opts) ==
    LET cs == DecodeLoop(rows, charset, opts, 1, 0, <<>>)
        confidence ==
            IF cs = <<>> THEN <<0, 1>>
            ELSE <<SumSeq([i \in 1..Len(cs) |-> cs[i][2]]), Len(cs)>>
        text == [i \in 1..Len(cs) |-> cs[i][1]]
    IN  RecognitionResult(text, confidence, cs)

(***************************************************************************)
(* Bounds and input sets of the decoding specification                     *)
(***************************************************************************)
MaxSeqLen == 3

\* Probabilities a step gives its best class: below both thresholds of the
\* default options, on punct_min_score, on min_score.
DecProbs == {5, 10, 30}

\* A row whose best class is c with probability p, and a row of equal
\* probabilities.
OneHot(c, p) == [d \in Classes |-> IF d = c THEN p ELSE 0]
TieRow == [d \in Classes |-> 10]

\* The rows of the decoding specification: "a" and "," at every probability
\* of DecProbs; the blank, the pad token and the class past the charset at
\* one; the row of equal probabilities.
DecRowSet ==
    {OneHot(c, p) : c \in {1, 2}, p \in DecProbs}
        \cup {OneHot(0, 30), OneHot(3, 30), OneHot(NumClasses - 1, 30), TieRow}

\* The default options, and options whose two thresholds are exchanged.
DecOptionSets ==
    {RecOptionsDefault,
     [RecOptionsDefault EXCEPT !.min_score = 10, !.punct_min_score = 30]}

DecIdle ==
    /\ decPc = "off"
    /\ decRows = <<>>
    /\ decOpts = RecOptionsDefault
    /\ decRes = RecognitionResult(<<>>, <<0, 1>>, <<>>)

DecInit ==
    /\ decPc = "idle"
    /\ decRows \in SeqsUpTo(DecRowSet, MaxSeqLen)
    /\ decOpts \in DecOptionSets
    /\ decRes = RecognitionResult(<<>>, <<0, 1>>, <<>>)

\* A call decode_output(&output) on an output of shape [seq_len, num_classes]
DecodeCall ==
    /\ decPc = "idle"
    /\ decRes' = DecodeRows(decRows, Charset, decOpts)
    /\ decPc' = "done"
    /\ UNCHANGED <<decRows, decOpts>>

(***************************************************************************)
(* preprocess.rs: preprocess_for_rec, preprocess_batch_for_rec             *)
(*                                                                         *)
(* An image is a text-line crop whose height is the target height, so that *)
(* both functions take it as it is (scale 1, no resampling): the sequence  *)
(* of its pixel columns, one u8 value a column.  A tensor is a sequence of *)
(* samples, each the sequence of its normalized columns.                   *)
(***************************************************************************)
\* (v / 255 - mean) / std with NormalizeParams::paddle_rec (mean 0.5,
\* std 0.5), in units of 1/255: 0 -> -255, 255 -> 255.  No u8 gives 0.
Normalize(v) == 2 * v - 255

\* preprocess_for_rec: a tensor [1, 3, H, W] of the normalized columns
PreprocessForRec(img) == <<[x \in 1..Len(img) |-> Normalize(img[x])]>>

\* The greatest width of a non-empty list of images
RECURSIVE MaxWidthOf(_)
MaxWidthOf(images) ==
    IF Len(images) = 1 THEN Len(images[1])
    ELSE Max2(Len(images[1]), MaxWidthOf(Tail(images)))

\* preprocess_batch_for_rec: a tensor [N, 3, H, max_width] of zeros, sample i
\* filled with the normalized columns of image i up to its own width.
PreprocessBatchForRec(images) ==
    IF images = <<>> THEN <<>>
    ELSE LET maxWidth == MaxWidthOf(images) IN
         [i \in 1..Len(images) |->
             [x \in 1..maxWidth |->
                 IF x <= Len(images[i]) THEN Normalize(images[i][x]) ELSE 0]]

(***************************************************************************)
(* The inference capability: what run_dynamic returns for a tensor.  The   *)
(* network is external and opaque; the model takes a deterministic one     *)
(* that answers column by column, one time step a column:                  *)
(*   black (0)     -> class of "a" with probability 0.61                   *)
(*   dark (60)     -> class of "a" with probability 0.55                   *)
(*   white (255)   -> the blank                                            *)
(*   200           -> the native call returns an error code                *)
(*   0.0 (padding) -> net.pad, a row of the network's choosing             *)
(* and that reports, for a tensor of two samples or more, a batch          *)
(* dimension of net.skew more than the samples it was given.               *)
(***************************************************************************)
\* The answer that stands for a non-success code of the native call
NetFail == [d \in Classes |-> -1]

NetRowOf(n, v) ==
    CASE v = Normalize(0) -> OneHot(1, 61)
      [] v = Normalize(60) -> OneHot(1, 55)
      [] v = Normalize(255) -> OneHot(0, 99)
      [] v = Normalize(200) -> NetFail
      [] OTHER -> n.pad

Ok(v) == [ok |-> TRUE, val |-> v]
Err(e) == [ok |-> FALSE, err |-> e]

\* An output tensor of rank 3, [batch, seq_len, num_classes]
Tensor3(samples) == [rank |-> 3, samples |-> samples]
\* A slice of it, of rank 2, [seq_len, num_classes]
Tensor2(rows) == [rank |-> 2, samples |-> <<rows>>]

\* InferenceEngine::run_dynamic: an error for a non-success code of the
\* native call, else the output it wrote, shaped as it reported.
RunDynamic(n, tensor) ==
    IF \E i \in 1..Len(tensor) : \E x \in 1..Len(tensor[i]) :
           NetRowOf(n, tensor[i][x]) = NetFail
    THEN Err("MnnError")
    ELSE LET rows == [i \in 1..Len(tensor) |->
                         [x \in 1..Len(tensor[i]) |-> NetRowOf(n, tensor[i][x])]]
             blank == [x \in 1..Len(tensor[1]) |-> OneHot(0, 99)]
         IN  IF Len(tensor) < 2 \/ n.skew = 0 THEN Ok(Tensor3(rows))
             ELSE IF n.skew < 0 THEN Ok(Tensor3(SubSeq(rows, 1, Len(rows) - 1)))
             ELSE Ok(Tensor3(Append(rows, blank)))

(***************************************************************************)
(* mnn/mod.rs: InferenceEngine::run_dynamic called by several threads on   *)
(* one engine (unsafe impl Sync for InferenceEngine).                      *)
(*                                                                         *)
(* The Rust side of a call keeps everything in locals of the call; the     *)
(* native function writes through pointers to those locals and hands back  *)
(* a buffer of the native heap, which the call copies and frees.  The      *)
(* native function itself is taken as the inference capability is          *)
(* required to be: one step that tolerates concurrent calls.               *)
(***************************************************************************)
\* A free cell of the native heap (no buffer has rank 0)
HeapFree == [rank |-> 0, samples |-> <<>>]

\* mnnr_run_inference_dynamic on a tensor, for a caller whose out-pointers
\* are its own: a non-success code, or success with the output in a buffer
\* allocated at the lowest free address of the native heap.
MnnrRunInferenceDynamic(n, heap, tensor) ==
    LET answer == RunDynamic(n, tensor) IN
    IF ~answer.ok
    THEN [error_code |-> "MNNR_ERROR_RUNTIME", output_data |-> 0, heap |-> heap]
    ELSE LET a == CHOOSE x \in DOMAIN heap :
                      /\ heap[x] = HeapFree
                      /\ \A y \in DOMAIN heap : heap[y] = HeapFree => x <= y
         IN  [error_code |-> "MNNR_SUCCESS", output_data |-> a,
              heap |-> [heap EXCEPT ![a] = answer.val]]

\* The buffer a call reads taken as the first one allocated in the heap, not
\* the one its own output_data points to.
InferOutputDataShared(local, heap) ==
    IF \A x \in DOMAIN heap : heap[x] = HeapFree THEN local.output_data
    ELSE CHOOSE x \in DOMAIN heap :
             /\ heap[x] # HeapFree
             /\ \A y \in DOMAIN heap : heap[y] # HeapFree => x <= y

\* from_raw_parts(output_data, output_size): the local of the call
InferOutputData(local, heap) == local.output_data

(***************************************************************************)
(* rec.rs: decode_output on a tensor, recognize, recognize_batch           *)
(***************************************************************************)
\* decode_output: rank 3 reads seq_len and num_classes from dimensions 1 and
\* 2 and decodes the first seq_len rows of the data, rank 2 decodes the rows,
\* any other rank is a PostprocessError.
DecodeOutput(output, charset, opts) ==
    IF output.rank \in {2, 3}
    THEN Ok(DecodeRows(output.samples[1], charset, opts))
    ELSE Err("PostprocessError")

\* RecModel::recognize: preprocess, run_dynamic?, decode_output
Recognize(n, opts, img) ==
    LET output == RunDynamic(n, PreprocessForRec(img)) IN
    IF ~output.ok THEN output ELSE DecodeOutput(output.val, Charset, opts)

\* images.iter().map(|img| self.recognize(img)).collect(): the results in
\* order, or the first error.
RECURSIVE RecognizeEach(_, _, _)
RecognizeEach(n, opts, images) ==
    IF images = <<>> THEN Ok(<<>>)
    ELSE LET first == Recognize(n, opts, Head(images)) IN
         IF ~first.ok THEN first
         ELSE LET rest == RecognizeEach(n, opts, Tail(images)) IN
              IF ~rest.ok THEN rest ELSE Ok(<<first.val>> \o rest.val)

\* The loop of recognize_batch_internal over 0..shape[0]: every slice of the
\* batch output decoded (a slice has rank 2, which decode_output accepts).
BatchDecode(output, opts) ==
    Ok([i \in 1..Len(output.samples) |->
           DecodeOutput(Tensor2(output.samples[i]), Charset, opts).val])

\* recognize_batch_internal
RecognizeBatchInternal(n, opts, images) ==
    IF images = <<>> THEN Ok(<<>>)
    ELSE IF Len(images) = 1
    THEN LET one == Recognize(n, opts, images[1]) IN
         IF ~one.ok THEN one ELSE Ok(<<one.val>>)
    ELSE LET output == RunDynamic(n, PreprocessBatchForRec(images)) IN
         IF ~output.ok THEN output
         ELSE IF output.val.rank # 3 THEN Err("PostprocessError")
         ELSE BatchDecode(output.val, opts)

\* for chunk in images.chunks(batch_size): the chunks from image k on, each
\* through recognize_batch_internal?, the results extended in order.
RECURSIVE RecognizeChunks(_, _, _, _)
RecognizeChunks(n, opts, images, k) ==
    IF k > Len(images) THEN Ok(<<>>)
    ELSE LET last == Min2(k + opts.batch_size - 1, Len(images))
             chunk == RecognizeBatchInternal(n, opts, SubSeq(images, k, last))
         IN  IF ~chunk.ok THEN chunk
             ELSE LET rest == RecognizeChunks(n, opts, images, last + 1) IN
                  IF ~rest.ok THEN rest ELSE Ok(chunk.val \o rest.val)

\* recognize_batch
RecognizeBatch(n, opts, images) ==
    IF images = <<>> THEN Ok(<<>>)
    ELSE IF Len(images) <= 2 \/ ~opts.enable_batch
    THEN RecognizeEach(n, opts, images)
    ELSE RecognizeChunks(n, opts, images, 1)

\* The run_dynamic calls of recognize_batch, as the number of images each was
\* given, in the order made.  recognize makes one whether it returns Ok or
\* Err; the lazy map under collect() stops after the first Err.
RECURSIVE InferEach(_, _, _)
InferEach(n, opts, images) ==
    IF images = <<>> THEN <<>>
    ELSE <<1>> \o (IF ~Recognize(n, opts, Head(images)).ok THEN <<>>
                   ELSE InferEach(n, opts, Tail(images)))

InferBatchInternalPerImage(images) == [i \in 1..Len(images) |-> 1]

\* recognize_batch_internal: none for no image, the one of recognize for a
\* single image, else one for the stacked batch
InferBatchInternal(images) ==
    IF images = <<>> THEN <<>> ELSE <<Len(images)>>

\* for chunk in images.chunks(batch_size), left by `?` at the first Err
RECURSIVE InferChunks(_, _, _, _)
InferChunks(n, opts, images, k) ==
    IF k > Len(images) THEN <<>>
    ELSE LET last == Min2(k + opts.batch_size - 1, Len(images))
             chunk == RecognizeBatchInternal(n, opts, SubSeq(images, k, last))
         IN  InferBatchInternal(SubSeq(images, k, last)) \o
                 (IF ~chunk.ok THEN <<>>
                  ELSE InferChunks(n, opts, images, last + 1))

\* recognize_batch
InferBatch(n, opts, images) ==
    IF images = <<>> THEN <<>>
    ELSE IF Len(images) <= 2 \/ ~opts.enable_batch
    THEN InferEach(n, opts, images)
    ELSE InferChunks(n, opts, images, 1)

(***************************************************************************)
(* engine.rs: OcrEngine::recognize                                         *)
(*                                                                         *)
(* The detection model's answer for the caller's image is an input of the  *)
(* call: an error, or the detected regions in detection order, each the    *)
(* crop handed to recognition and its bounding box.                        *)
(***************************************************************************)
\* The literal of `images.len() > 4`
ParallelThreshold == 4

\* OcrResult_::new(text, confidence, bbox)
OcrResult_(text, confidence, bbox) ==
    [text |-> text, confidence |-> confidence, bbox |-> bbox]

\* detections.is_empty()
EngNoDetectionsNever(detections) == FALSE
EngNoDetections(detections) == detections = <<>>

\* enable_parallel && images.len() > 4
EngParallelPath(config, detections) ==
    config.enable_parallel /\ Len(detections) > ParallelThreshold

\* The two halves of detections.into_iter().unzip()
EngImages(detections) == [i \in 1..Len(detections) |-> detections[i][1]]
EngBoxes(detections) == [i \in 1..Len(detections) |-> detections[i][2]]

\* The filter's test with >= replaced by >.
EngKeepsStrict(rec, floor) ==
    rec.text # <<>> /\ rec.confidence[1] > floor * rec.confidence[2]

\* !rec.text.is_empty() && rec.confidence >= min_result_confidence
EngKeeps(rec, floor) ==
    rec.text # <<>> /\ rec.confidence[1] >= floor * rec.confidence[2]

\* rec_results.into_iter().zip(boxes).filter(..).map(..).collect(), from pair
\* k on; zip ends with the shorter of the two.
RECURSIVE EngFilter(_, _, _, _)
EngFilter(recResults, boxes, floor, k) ==
    IF k > Min2(Len(recResults), Len(boxes)) THEN <<>>
    ELSE LET rest == EngFilter(recResults, boxes, floor, k + 1) IN
         IF EngKeeps(recResults[k], floor)
         THEN <<OcrResult_(recResults[k].text, recResults[k].confidence, boxes[k])>>
                  \o rest
         ELSE rest

\* Step 3 of recognize on the outcome of step 2: `?` returns the error,
\* else the filtered results.
EngCombine(rec, boxes, floor) ==
    IF ~rec.ok THEN rec ELSE Ok(EngFilter(rec.val, boxes, floor, 1))

\* recognize when the parallel path is not taken, as the record of what it
\* returns (out), the rec_results it had (rec) and the calls it made of the
\* recognition model (calls).
EngRecognizeSequential(config, n, detected) ==
    IF ~detected.ok
    THEN [out |-> detected, rec |-> Ok(<<>>), calls |-> 0]
    ELSE IF EngNoDetections(detected.val)
    THEN [out |-> Ok(<<>>), rec |-> Ok(<<>>), calls |-> 0]
    ELSE LET rec == RecognizeBatch(n, config.rec_options, EngImages(detected.val))
         IN  [out |-> EngCombine(rec, EngBoxes(detected.val),
                                 config.min_result_confidence),
              rec |-> rec, calls |-> 1]

\* The run_dynamic calls of the recognition network that call makes: none
\* when detection failed or found nothing, else those of recognize_batch.
EngInferSequential(config, n, detected) ==
    IF ~detected.ok THEN <<>>
    ELSE IF EngNoDetections(detected.val) THEN <<>>
    ELSE InferBatch(n, config.rec_options, EngImages(detected.val))

\* collect() pushing every result in the order the tasks completed.
ParallelCollectByCompletion(slots, order, n) ==
    LET failed == {k \in 1..Len(order) : ~slots[order[k]].ok} IN
    IF failed # {}
    THEN slots[order[CHOOSE k \in failed : \A m \in failed : k <= m]]
    ELSE Ok([k \in 1..n |-> slots[order[k]].val])

\* collect() leaving out the tasks that failed.
ParallelCollectLossy(slots, order, n) ==
    LET good == {i \in DOMAIN slots : slots[i].ok} IN
    Ok([k \in 1..Cardinality(good) |->
           slots[CHOOSE i \in good : Cardinality({m \in good : m <= i}) = k].val])

\* par_iter().map(..).collect::<OcrResult<Vec<_>>>(): the first error a task
\* stored, else the values by the index of their image.
ParallelCollect(slots, order, n) ==
    LET failed == {k \in 1..Len(order) : ~slots[order[k]].ok} IN
    IF failed # {}
    THEN slots[order[CHOOSE k \in failed : \A m \in failed : k <= m]]
    ELSE Ok([i \in 1..n |-> slots[i].val])

(***************************************************************************)
(* ori.rs: class_to_angle, softmax, OriModel::decode_output, classify;     *)
(* engine.rs: correct_orientation_with_model, rotate_by_angle              *)
(*                                                                         *)
(* An image is its width, its height and the quarter turns clockwise it    *)
(* has been rotated by.  A raw score of the orientation network is kept as *)
(* the weight w with score = ln w, so that softmax is the exact quotient   *)
(* <<w, sum of the weights>>.                                              *)
(***************************************************************************)
\* class_to_angle with the table used whenever it holds the class index.
ClassToAngleTableFirst(numClasses, classIdx, classAngles) ==
    IF classIdx < Len(classAngles) THEN classAngles[classIdx + 1]
    ELSE classIdx

\* class_to_angle(num_classes, class_idx, class_angles); class_angles.get is
\* None past the table's end
ClassToAngle(numClasses, classIdx, classAngles) ==
    IF Len(classAngles) = numClasses
    THEN IF classIdx < Len(classAngles) THEN classAngles[classIdx + 1]
         ELSE classIdx
    ELSE CASE numClasses = 2 -> (IF classIdx = 0 THEN 0 ELSE 180)
           [] numClasses = 4 ->
                  (CASE classIdx = 0 -> 0
                     [] classIdx = 1 -> 90
                     [] classIdx = 2 -> 180
                     [] classIdx = 3 -> 270
                     [] OTHER -> classIdx)
           [] OTHER -> classIdx

\* softmax on the weights of the raw scores: exp(s - max) / sum is w / sum
Softmax(weights) ==
    [i \in 1..Len(weights) |-> <<weights[i], SumSeq(weights)>>]

\* scores.iter().enumerate().max_by(partial_cmp): the position (from 1) of
\* the greatest score, the last one among equals
OriArgMax(weights) ==
    CHOOSE i \in 1..Len(weights) :
        \A j \in 1..Len(weights) :
            weights[j] < weights[i] \/ (weights[j] = weights[i] /\ j <= i)

\* OrientationResult::new
OrientationResult(classIdx, angle, confidence, scores) ==
    [class_idx |-> classIdx, angle |-> angle, confidence |-> confidence,
     scores |-> scores]

\* OrientationResult::is_valid: confidence >= threshold (in hundredths)
OriIsValid(result, threshold) ==
    result.confidence[1] * 100 >= threshold * result.confidence[2]

\* OriModel::decode_output on an output of the given shape and data
OriDecodeOutput(output, classAngles) ==
    IF output.shape = <<>> THEN Err("PostprocessError")
    ELSE LET numClasses == output.shape[Len(output.shape)] IN
         IF numClasses = 0 THEN Err("PostprocessError")
         ELSE IF output.data = <<>> THEN Err("PostprocessError")
         ELSE IF Len(output.data) < numClasses THEN Err("PostprocessError")
         ELSE LET raw == SubSeq(output.data, 1, numClasses)
                  best == OriArgMax(raw)
              IN  Ok(OrientationResult(
                         best - 1,
                         ClassToAngle(numClasses, best - 1, classAngles),
                         Softmax(raw)[best], Softmax(raw)))

\* OriModel::classify: preprocess_for_ori? (an error for a zero target size),
\* run_dynamic?, decode_output
Classify(options, answer) ==
    IF options.target_height = 0 \/ options.target_width = 0
    THEN Err("PreprocessError")
    ELSE IF ~answer.ok THEN answer
    ELSE OriDecodeOutput(answer.val, options.class_angles)

Image(w, h, turns) == [width |-> w, height |-> h, turns |-> turns]

\* imageops::rotate90, rotate180, rotate270 (clockwise)
Rotate90(img) == Image(img.height, img.width, (img.turns + 1) % 4)
Rotate180(img) == Image(img.width, img.height, (img.turns + 2) % 4)
Rotate270(img) == Image(img.height, img.width, (img.turns + 3) % 4)

\* rotate_by_angle turning the way the model reports, not back.
RotateByAngleForward(img, angle) ==
    CASE angle % 360 = 90 -> Rotate90(img)
      [] angle % 360 = 180 -> Rotate180(img)
      [] angle % 360 = 270 -> Rotate270(img)
      [] OTHER -> img

\* rotate_by_angle: angle.rem_euclid(360) of 90, 180, 270 turns the image
\* back by it; any other angle returns the image as it is
RotateByAngle(img, angle) ==
    CASE angle % 360 = 90 -> Rotate270(img)
      [] angle % 360 = 180 -> Rotate180(img)
      [] angle % 360 = 270 -> Rotate90(img)
      [] OTHER -> img

\* correct_orientation_with_model
CorrectOrientationWithModel(config, answer, img) ==
    LET result == Classify(config.ori_options, answer) IN
    IF ~result.ok THEN img
    ELSE IF ~OriIsValid(result.val, config.ori_min_confidence) THEN img
    ELSE IF result.val.angle % 360 = 0 THEN img
    ELSE RotateByAngle(img, result.val.angle)

\* Step 0 of recognize: the image handed to detect_and_crop
CorrectedImage(config, hasOriModel, answer, img) ==
    IF hasOriModel THEN CorrectOrientationWithModel(config, answer, img)
    ELSE img

(***************************************************************************)
(* postprocess.rs: extract_boxes_with_unclip, get_contour_bounds           *)
(*                                                                         *)
(* A mask is the row-major sequence of its mask_width * mask_height bytes, *)
(* pixel (x, y) at position y * mask_width + x + 1.  The f32 quantities    *)
(* are kept exact: unclip_ratio and the expansion distance as quotients    *)
(* <<numerator, denominator>>, the scale as original / valid; the sizes    *)
(* and ratios of the model are such that every f32 operation of the source *)
(* is exact on them (ratios and scales with a power of 2 as denominator).  *)
(***************************************************************************)
Point(x, y) == [x |-> x, y |-> y]

\* The border find_contours follows around a filled rectangle of pixels
\* x0..x1 by y0..y1: one point for a single pixel, along and back for a line
\* one pixel thick, else once around the border pixels.
RectBorder(x0, y0, x1, y1) ==
    IF x0 = x1 /\ y0 = y1 THEN <<Point(x0, y0)>>
    ELSE IF y0 = y1
    THEN [k \in 1..(x1 - x0 + 1) |-> Point(x0 + k - 1, y0)]
             \o [k \in 1..(x1 - x0 - 1) |-> Point(x1 - k, y0)]
    ELSE IF x0 = x1
    THEN [k \in 1..(y1 - y0 + 1) |-> Point(x0, y0 + k - 1)]
             \o [k \in 1..(y1 - y0 - 1) |-> Point(x0, y1 - k)]
    ELSE [k \in 1..(x1 - x0 + 1) |-> Point(x0 + k - 1, y0)]
             \o [k \in 1..(y1 - y0) |-> Point(x1, y0 + k)]
             \o [k \in 1..(x1 - x0) |-> Point(x1 - k, y1)]
             \o [k \in 1..(y1 - y0 - 1) |-> Point(x0, y1 - k)]

\* Whether pixel (x, y) of the mask is foreground (non-zero)
MaskPixel(mask, mw, mh, x, y) ==
    /\ x \in 0..(mw - 1)
    /\ y \in 0..(mh - 1)
    /\ mask[y * mw + x + 1] # 0

\* The foreground pixels from (x, y) on to the right, and downwards
RECURSIVE RunRight(_, _, _, _, _)
RunRight(mask, mw, mh, x, y) ==
    IF MaskPixel(mask, mw, mh, x, y) THEN 1 + RunRight(mask, mw, mh, x + 1, y)
    ELSE 0
RECURSIVE RunDown(_, _, _, _, _)
RunDown(mask, mw, mh, x, y) ==
    IF MaskPixel(mask, mw, mh, x, y) THEN 1 + RunDown(mask, mw, mh, x, y + 1)
    ELSE 0

\* The top-left pixels of the mask's blobs, in raster order
BlobCorners(mask, mw, mh) ==
    LET X(k) == (k - 1) % mw
        Y(k) == (k - 1) \div mw
        at == {k \in 1..(mw * mh) :
                  /\ MaskPixel(mask, mw, mh, X(k), Y(k))
                  /\ ~MaskPixel(mask, mw, mh, X(k) - 1, Y(k))
                  /\ ~MaskPixel(mask, mw, mh, X(k), Y(k) - 1)}
        nth(i) == CHOOSE k \in at : Cardinality({j \in at : j < k}) = i - 1
    IN  [i \in 1..Cardinality(at) |-> Point(X(nth(i)), Y(nth(i)))]

\* GrayImage::from_raw(..).unwrap_or_else(GrayImage::new) and find_contours,
\* on the masks of the model, whose blobs are filled rectangles apart from
\* each other: one outer contour (no parent) a blob, in raster order; a
\* buffer shorter than the image gives the empty image.
FindContours(mask, mw, mh) ==
    IF Len(mask) < mw * mh THEN <<>>
    ELSE LET corners == BlobCorners(mask, mw, mh) IN
         [i \in 1..Len(corners) |->
             LET c == corners[i]
                 w == RunRight(mask, mw, mh, c.x, c.y)
                 h == RunDown(mask, mw, mh, c.x, c.y)
             IN  [has_parent |-> FALSE,
                  points |-> RectBorder(c.x, c.y, c.x + w - 1, c.y + h - 1)]]

\* The bounds with the far edges one past the greatest coordinates.
GetContourBoundsPastEnd(points) ==
    LET xs == {points[i].x : i \in 1..Len(points)}
        ys == {points[i].y : i \in 1..Len(points)}
        lo(S) == CHOOSE v \in S : \A u \in S : v <= u
        hi(S) == CHOOSE v \in S : \A u \in S : v >= u
    IN  <<lo(xs), lo(ys), hi(xs) + 1, hi(ys) + 1>>

\* get_contour_bounds: (min_x, min_y, max_x, max_y) of the points
GetContourBounds(points) ==
    LET xs == {points[i].x : i \in 1..Len(points)}
        ys == {points[i].y : i \in 1..Len(points)}
        lo(S) == CHOOSE v \in S : \A u \in S : v <= u
        hi(S) == CHOOSE v \in S : \A u \in S : v >= u
    IN  <<lo(xs), lo(ys), hi(xs), hi(ys)>>

\* expand_dist = (area * unclip_ratio / perimeter).max(1.0) as a quotient;
\* 0.0 / 0.0 is NaN and NaN.max(1.0) is 1.0
ExpandDist(area, perimeter, ratio) ==
    IF perimeter = 0 THEN <<1, 1>>
    ELSE <<Max2(area * ratio[1], perimeter * ratio[2]), perimeter * ratio[2]>>

\* (lo as f32 - expand_dist).max(0.0) as i32
ExpandedMin(lo, dist) ==
    IF lo * dist[2] - dist[1] <= 0 THEN 0
    ELSE (lo * dist[2] - dist[1]) \div dist[2]

\* (hi as f32 + expand_dist).min(valid as f32) as i32
ExpandedMax(hi, dist, valid) ==
    IF hi * dist[2] + dist[1] >= valid * dist[2] THEN valid
    ELSE (hi * dist[2] + dist[1]) \div dist[2]

\* (v as f32 * scale) as a truncated integer, scale = original / valid
Scaled(v, original, valid) == (v * original) \div valid

\* u32::saturating_sub
SaturatingSub(a, b) == IF a >= b THEN a - b ELSE 0

\* The final test of the loop with the boxes of no width or height kept.
ExtKeepsAlways(w, h) == TRUE

\* final_w > 0 && final_h > 0
ExtKeeps(w, h) == w > 0 /\ h > 0

\* The locals of an iteration that left the loop body early
ExtSkipped(why) ==
    [kept |-> FALSE, why |-> why, box_width |-> 0, box_height |-> 0,
     area |-> 0, perimeter |-> 0, expand_dist |-> <<0, 1>>,
     expanded |-> <<0, 0, 0, 0>>, box |-> TextBox(Rect(0, 0, 0, 0), 0)]

\* One iteration of the loop of extract_boxes_with_unclip: the locals it
\* computed and the box it pushed, if any
ExtractStep(contour, vw, vh, ow, oh, minArea, ratio) ==
    IF contour.has_parent THEN ExtSkipped("parent")
    ELSE IF Len(contour.points) < 4 THEN ExtSkipped("points")
    ELSE LET b == GetContourBounds(contour.points) IN
    IF b[1] >= vw \/ b[2] >= vh THEN ExtSkipped("padding")
    ELSE LET minX == Max2(b[1], 0)
             minY == Max2(b[2], 0)
             maxX == Min2(b[3], vw)
             maxY == Min2(b[4], vh)
             boxW == maxX - minX
             boxH == maxY - minY
         IN
    IF boxW * boxH < minArea THEN ExtSkipped("min_area")
    ELSE LET area == boxW * boxH
             perimeter == 2 * (boxW + boxH)
             dist == ExpandDist(area, perimeter, ratio)
             eMinX == ExpandedMin(minX, dist)
             eMinY == ExpandedMin(minY, dist)
             eMaxX == ExpandedMax(maxX, dist, vw)
             eMaxY == ExpandedMax(maxY, dist, vh)
             finalX == Max2(Scaled(eMinX, ow, vw), 0)
             finalY == Max2(Scaled(eMinY, oh, vh), 0)
             finalW == Min2(Scaled(eMaxX - eMinX, ow, vw), SaturatingSub(ow, finalX))
             finalH == Min2(Scaled(eMaxY - eMinY, oh, vh), SaturatingSub(oh, finalY))
         IN  [kept |-> ExtKeeps(finalW, finalH), why |-> "none",
              box_width |-> boxW, box_height |-> boxH,
              area |-> area, perimeter |-> perimeter, expand_dist |-> dist,
              expanded |-> <<eMinX, eMinY, eMaxX, eMaxY>>,
              box |-> TextBox(Rect(finalX, finalY, finalW, finalH), 100)]

\* The iterations of the loop over find_contours' contours, in order
ExtractSteps(mask, mw, mh, vw, vh, ow, oh, minArea, ratio) ==
    LET contours == FindContours(mask, mw, mh) IN
    [i \in 1..Len(contours) |->
        ExtractStep(contours[i], vw, vh, ow, oh, minArea, ratio)]

\* The boxes pushed by the iterations from k on
RECURSIVE PushedBoxes(_, _)
PushedBoxes(steps, k) ==
    IF k > Len(steps) THEN <<>>
    ELSE IF steps[k].kept THEN <<steps[k].box>> \o PushedBoxes(steps, k + 1)
    ELSE PushedBoxes(steps, k + 1)

\* extract_boxes_with_unclip
ExtractBoxesWithUnclip(mask, mw, mh, vw, vh, ow, oh, minArea, ratio) ==
    PushedBoxes(ExtractSteps(mask, mw, mh, vw, vh, ow, oh, minArea, ratio), 1)

(***************************************************************************)
(* det.rs: DetModel::detect, detect_fast, scale_image, postprocess_output   *)
(*                                                                         *)
(* The output of the inference capability is [shape, data], data the f32   *)
(* scores in hundredths in iteration order.  A panic of the call (an index *)
(* out of bounds) is the value Abort(..), which no caller receives.        *)
(***************************************************************************)
Abort(msg) == [ok |-> FALSE, abort |-> msg]

\* scale_image: the image as it is when its longer side is within
\* max_side_len, else both sides times max_side_len / max_dim, rounded
ScaleImage(w, h, maxSideLen) ==
    LET maxDim == Max2(w, h)
        rounded(v) == (2 * v * maxSideLen + maxDim) \div (2 * maxDim)
    IN  IF maxDim <= maxSideLen THEN <<w, h>>
        ELSE <<rounded(w), rounded(h)>>

\* The binarization with the scores equal to the threshold taken as text.
BinarizeAtLeast(data, scoreThreshold) ==
    [i \in 1..Len(data) |-> IF data[i] >= scoreThreshold THEN 255 ELSE 0]

\* The binarization of postprocess_output: v > score_threshold
Binarize(data, scoreThreshold) ==
    [i \in 1..Len(data) |-> IF data[i] > scoreThreshold THEN 255 ELSE 0]

\* postprocess_output
PostprocessOutput(options, output, outW, outH, scaled, original) ==
    IF Len(output.shape) < 3 THEN Err("PostprocessError")
    ELSE Ok(ExtractBoxesWithUnclip(
                Binarize(output.data, options.score_threshold), outW, outH,
                scaled[1], scaled[2], original[1], original[2],
                options.min_area, options.unclip_ratio))

\* detect_fast, with the answer of run_dynamic given: output_shape[3] and
\* output_shape[2] are read before postprocess_output looks at the rank
DetectFast(options, image, answer) ==
    LET scaled == ScaleImage(image[1], image[2], options.max_side_len) IN
    IF ~answer.ok THEN answer
    ELSE LET shape == answer.val.shape IN
         IF Len(shape) < 4 THEN Abort("index out of bounds")
         ELSE PostprocessOutput(options, answer.val, shape[4], shape[3],
                                scaled, image)

\* DetModel::detect
Detect(options, image, answer) == DetectFast(options, image, answer)

\* RecModel::recognize, with the answer of run_dynamic given
RecognizeAnswer(answer, opts) ==
    IF ~answer.ok THEN answer ELSE DecodeOutput(answer.val, Charset, opts)

(***************************************************************************)
(* rec.rs: RecModel::parse_charset, RecModel::from_bytes_with_charset      *)
(*                                                                         *)
(* Data is a sequence of bytes, a character is its code point.  The bytes  *)
(* of the model are ASCII, the lead and continuation bytes of two-byte     *)
(* sequences, and 0xFF, which no UTF-8 text holds.                         *)
(***************************************************************************)
\* std::str::from_utf8 followed by chars(): the code points, or an error
RECURSIVE FromUtf8(_)
FromUtf8(data) ==
    IF data = <<>> THEN Ok(<<>>)
    ELSE LET b == Head(data) IN
         IF b < 128
         THEN LET rest == FromUtf8(Tail(data)) IN
              IF rest.ok THEN Ok(<<b>> \o rest.val) ELSE rest
         ELSE IF b \in 194..223 /\ Len(data) >= 2 /\ data[2] \in 128..191
         THEN LET rest == FromUtf8(Tail(Tail(data))) IN
              IF rest.ok THEN Ok(<<(b % 32) * 64 + (data[2] % 64)>> \o rest.val)
              ELSE rest
         ELSE Err("Utf8Error")

\* ' ', the blank token and the padding token
CharsetSpace == 32

\* ch != '\n' && ch != '\r'
CharsetKeeps(ch) == ch # 10 /\ ch # 13

\* parse_charset without the test of the length of the table.
ParseCharsetAnyLength(data) ==
    LET content == FromUtf8(data) IN
    IF ~content.ok THEN Err("CharsetError")
    ELSE Ok(<<CharsetSpace>> \o SelectSeq(content.val, CharsetKeeps)
                \o <<CharsetSpace>>)

\* parse_charset
ParseCharset(data) ==
    LET content == FromUtf8(data) IN
    IF ~content.ok THEN Err("CharsetError")
    ELSE LET charset == <<CharsetSpace>> \o SelectSeq(content.val, CharsetKeeps)
                            \o <<CharsetSpace>>
         IN  IF Len(charset) < 3 THEN Err("CharsetError") ELSE Ok(charset)

\* from_bytes_with_charset: InferenceEngine::from_buffer?, parse_charset?,
\* then the model with the default options
FromBytesWithCharset(engine, data) ==
    IF ~engine.ok THEN engine
    ELSE LET charset == ParseCharset(data) IN
         IF ~charset.ok THEN charset
         ELSE Ok([engine |-> engine.val, charset |-> charset.val,
                  options |-> RecOptionsDefault])

(***************************************************************************)
(* engine.rs: OcrEngineConfig, its Default and its with_* methods; the     *)
(* Default of DetOptions, RecOptions and OriOptions.  f32 fields are in    *)
(* hundredths, unclip_ratio is a quotient.                                 *)
(***************************************************************************)
\* DetOptions::default()
DetOptionsDefault ==
    [max_side_len |-> 960, box_threshold |-> 50, unclip_ratio |-> <<3, 2>>,
     score_threshold |-> 30, min_area |-> 16, box_border |-> 5,
     merge_boxes |-> FALSE, merge_threshold |-> 10, precision_mode |-> "Fast",
     multi_scales |-> <<50, 100, 150>>, block_size |-> 640,
     block_overlap |-> 100, nms_threshold |-> 30]

\* RecOptions::default(), with its target_height
RecOptionsNew == [target_height |-> 48] @@ RecOptionsDefault

\* OriOptions::default()
OriOptionsDefault ==
    [target_height |-> 224, target_width |-> 224, min_score |-> 50,
     resize_shorter |-> 256, preprocess_mode |-> "Doc",
     class_angles |-> <<0, 90, 180, 270>>]

\* OcrEngineConfig::default()
OcrEngineConfigDefault ==
    [backend |-> "CPU", thread_count |-> 4, precision_mode |-> "Normal",
     det_options |-> DetOptionsDefault, rec_options |-> RecOptionsNew,
     ori_options |-> OriOptionsDefault, enable_parallel |-> TRUE,
     min_result_confidence |-> 50, ori_min_confidence |-> 30]

\* DetOptions::fast(): max_side_len 960 and DetPrecisionMode::Fast over
\* ..Default::default()
DetOptionsFast ==
    [DetOptionsDefault EXCEPT !.max_side_len = 960, !.precision_mode = "Fast"]

\* OcrEngineConfig::fast(): PrecisionMode::Low and DetOptions::fast() over
\* ..Default::default()
OcrEngineConfigFast ==
    [OcrEngineConfigDefault EXCEPT !.precision_mode = "Low",
                                   !.det_options = DetOptionsFast]

\* PrecisionMode by the precision it asks of the backend: Low (faster),
\* Normal, High (more accurate)
PrecisionLevel(mode) ==
    CASE mode = "Low" -> 0
      [] mode = "Normal" -> 1
      [] mode = "High" -> 2

(***************************************************************************)
(* postprocess.rs: merge_adjacent_boxes, can_merge, merge_rects            *)
(*                                                                         *)
(* Scores are quotients <<numerator, denominator>> here, so that the mean  *)
(* of a group is exact and a result can be given to the function again.    *)
(***************************************************************************)
\* can_merge: vertical overlap (touching included) and a horizontal distance
\* of at most threshold
CanMerge(a, b, threshold) ==
    LET aBottom == a.top + a.height
        bBottom == b.top + b.height
        aRight == a.left + a.width
        bRight == b.left + b.width
        horizontalDist ==
            IF a.left > bRight THEN a.left - bRight
            ELSE IF b.left > aRight THEN b.left - aRight
            ELSE 0
        verticalOverlap == ~(a.top > bBottom \/ b.top > aBottom)
    IN  verticalOverlap /\ horizontalDist <= threshold

\* merge_rects: the bounding rectangle of the two
MergeRects(a, b) ==
    LET x1 == Min2(a.left, b.left)
        y1 == Min2(a.top, b.top)
        x2 == Max2(a.left + a.width, b.left + b.width)
        y2 == Max2(a.top + a.height, b.top + b.height)
    IN  Rect(x1, y1, x2 - x1, y2 - y1)

\* group_score += score, on quotients
QAdd(p, q) == <<p[1] * q[2] + q[1] * p[2], p[2] * q[2]>>

\* One pass of the inner for loop, from index j: every unused box that can
\* be merged with the group as it is by then joins it
RECURSIVE MergePass(_, _, _, _)
MergePass(boxes, threshold, j, g) ==
    IF j > Len(boxes) THEN g
    ELSE IF j \notin g.used /\ CanMerge(g.current, boxes[j].rect, threshold)
    THEN MergePass(boxes, threshold, j + 1,
                   [current |-> MergeRects(g.current, boxes[j].rect),
                    group_score |-> QAdd(g.group_score, boxes[j].score),
                    count |-> g.count + 1,
                    used |-> g.used \cup {j},
                    found |-> TRUE])
    ELSE MergePass(boxes, threshold, j + 1, g)

\* The loop { .. } around the passes: again until a pass finds nothing
RECURSIVE MergeGrow(_, _, _)
MergeGrow(boxes, threshold, g) ==
    LET after == MergePass(boxes, threshold, 1, [g EXCEPT !.found = FALSE]) IN
    IF after.found THEN MergeGrow(boxes, threshold, after) ELSE after

\* The outer for loop from index i
RECURSIVE MergeFrom(_, _, _, _, _)
MergeFrom(boxes, threshold, i, used, merged) ==
    IF i > Len(boxes) THEN merged
    ELSE IF i \in used THEN MergeFrom(boxes, threshold, i + 1, used, merged)
    ELSE LET g == MergeGrow(boxes, threshold,
                            [current |-> boxes[i].rect,
                             group_score |-> boxes[i].score,
                             count |-> 1,
                             used |-> used \cup {i},
                             found |-> FALSE])
         IN  MergeFrom(boxes, threshold, i + 1, g.used,
                       Append(merged,
                              TextBox(g.current,
                                      <<g.group_score[1], g.group_score[2] * g.count>>)))

\* merge_adjacent_boxes
MergeAdjacentBoxes(boxes, threshold) ==
    IF boxes = <<>> THEN <<>> ELSE MergeFrom(boxes, threshold, 1, {}, <<>>)

(***************************************************************************)
(* postprocess.rs: group_boxes_by_line                                     *)
(***************************************************************************)
\* |b| b.rect.top() and |b| b.rect.left()
BoxTop(b) == b.rect.top
BoxLeft(b) == b.rect.left

\* sort_by_key, a stable sort, on the keys of the elements (key[i] that of
\* s[i]): the elements by key, those of equal key in the order they had
SortByKey(s, key) ==
    LET Rank(i) == Cardinality({j \in 1..Len(s) :
                       \/ key[j] < key[i]
                       \/ key[j] = key[i] /\ j <= i})
    IN  [k \in 1..Len(s) |-> s[CHOOSE i \in 1..Len(s) : Rank(i) = k]]

\* sorted_boxes.sort_by_key(|b| b.rect.top())
SortByTop(boxes) ==
    SortByKey(boxes, [i \in 1..Len(boxes) |-> BoxTop(boxes[i])])

\* current_line.sort_by_key(|b| b.rect.left())
SortByLeft(boxes) ==
    SortByKey(boxes, [i \in 1..Len(boxes) |-> BoxLeft(boxes[i])])

\* i32::abs
Abs(x) == IF x < 0 THEN -x ELSE x

GroupJoinsBelow(top, current_y, line_threshold) ==
    Abs(top - current_y) < line_threshold

\* (box_item.rect.top() - current_y).abs() <= line_threshold
GroupJoins(top, current_y, line_threshold) ==
    Abs(top - current_y) <= line_threshold

\* The loop over sorted_boxes.iter().skip(1) from box k on, and the last
\* line added after it
RECURSIVE GroupLoop(_, _, _, _, _, _)
GroupLoop(sorted, line_threshold, k, lines, current_line, current_y) ==
    IF k > Len(sorted)
    THEN Append(lines, SortByLeft(current_line))
    ELSE IF GroupJoins(BoxTop(sorted[k]), current_y, line_threshold)
    THEN GroupLoop(sorted, line_threshold, k + 1, lines,
                   Append(current_line, sorted[k]), current_y)
    ELSE GroupLoop(sorted, line_threshold, k + 1,
                   Append(lines, SortByLeft(current_line)),
                   <<sorted[k]>>, BoxTop(sorted[k]))

\* group_boxes_by_line
GroupBoxesByLine(boxes, line_threshold) ==
    IF boxes = <<>> THEN <<>>
    ELSE LET sorted_boxes == SortByTop(boxes) IN
         GroupLoop(sorted_boxes, line_threshold, 2, <<>>,
                   <<sorted_boxes[1]>>, BoxTop(sorted_boxes[1]))

(***************************************************************************)
(* postprocess.rs: TextBox::expand; det.rs: detect_and_crop                *)
(*                                                                         *)
(* A crop is held as its size.  Coordinates, sizes and border stay far     *)
(* below 2^31, so the casts between i32 and u32 keep their values.         *)
(***************************************************************************)
ExpandUnclamped(box, border, max_width, max_height) ==
    TextBox(Rect(box.rect.left - border, box.rect.top - border,
                 box.rect.width + 2 * border, box.rect.height + 2 * border),
            box.score)

\* TextBox::expand
Expand(box, border, max_width, max_height) ==
    LET x == Max2(box.rect.left - border, 0)
        y == Max2(box.rect.top - border, 0)
        right == Min2(box.rect.left + box.rect.width + border, max_width)
        bottom == Min2(box.rect.top + box.rect.height + border, max_height)
        width == IF right > x THEN right - x ELSE 1
        height == IF bottom > y THEN bottom - y ELSE 1
    IN  TextBox(Rect(x, y, width, height), box.score)

\* image.crop_imm(x, y, width, height): the view is cut to the image's
\* bounds (x and y to its size, width and height to what is left of it)
CropImm(image_width, image_height, x, y, width, height) ==
    LET cx == Min2(x, image_width)
        cy == Min2(y, image_height)
    IN  [width |-> Min2(width, image_width - cx),
         height |-> Min2(height, image_height - cy)]

\* The loop of detect_and_crop over the boxes of detect: each box expanded
\* by box_border, the crop taken at the expanded box
DetectAndCropBoxes(width, height, boxes, box_border) ==
    [i \in 1..Len(boxes) |->
        LET expanded == Expand(boxes[i], box_border, width, height) IN
        <<CropImm(width, height, expanded.rect.left, expanded.rect.top,
                  expanded.rect.width, expanded.rect.height),
          expanded>>]

(***************************************************************************)
(* Bounds and input sets of the recognition specification                  *)
(***************************************************************************)
MaxImages == 3

\* Crops: a black column, a dark one, a white one, one the network fails on,
\* and a wider crop of a black, a white and a dark column.
RecImageSet == {<<0>>, <<60>>, <<255>>, <<200>>, <<0, 255, 60>>}

\* Networks: padding answered with the blank or with ","; the batch
\* dimension reported as given, one less, one more.
Nets ==
    {[pad |-> r, skew |-> k] : r \in {OneHot(0, 99), OneHot(2, 61)}, k \in {-1, 0, 1}}

\* RecOptions: the default thresholds; batching on or off; batch_size 2 or 8
RecOptionSets ==
    {[RecOptionsDefault EXCEPT !.enable_batch = b, !.batch_size = z] :
        b \in BOOLEAN, z \in {2, 8}}

RecIdle ==
    /\ recPc = "off"
    /\ recImages = <<>>
    /\ recOpts = RecOptionsDefault
    /\ recOut = Ok(<<>>)

NetIdle == net = [pad |-> OneHot(0, 99), skew |-> 0]

RecInit ==
    /\ recPc = "idle"
    /\ recImages \in SeqsUpTo(RecImageSet, MaxImages)
    /\ recOpts \in RecOptionSets
    /\ net \in Nets
    /\ recOut = Ok(<<>>)

\* A call rec_model.recognize_batch(&images)
RecognizeBatchCall ==
    /\ recPc = "idle"
    /\ recOut' = RecognizeBatch(net, recOpts, recImages)
    /\ recPc' = "done"
    /\ UNCHANGED <<recImages, recOpts, net>>

(***************************************************************************)
(* Bounds and input sets of the engine specification                       *)
(***************************************************************************)
\* The longest list of detections: one more than the parallel path needs
MaxCrops == ParallelThreshold + 1

\* The lists of crops: every short list of the recognition specification's
\* crops; the longer ones of black and dark columns, and of black columns
\* around one crop the network fails on
EngCropLists ==
    SeqsUpTo(RecImageSet, ParallelThreshold - 1)
        \cup UNION {[1..k -> {<<0>>, <<60>>}] \cup
                       {[i \in 1..k |-> IF i = f THEN <<200>> ELSE <<0>>] : f \in 1..k} :
                    k \in ParallelThreshold..MaxCrops}

\* Region i of a list of crops: the crop and a box of its width, the boxes
\* side by side
EngDetections(crops) ==
    [i \in 1..Len(crops) |->
        <<crops[i], TextBox(Rect(8 * (i - 1), 0, Len(crops[i]), 48), 100)>>]

\* min_result_confidence: 0, 0.55, 0.6
EngFloors == {0, 55, 60}

\* RecOptions: the default, batches of 2, batching off
EngRecOptionSets ==
    {RecOptionsDefault,
     [RecOptionsDefault EXCEPT !.batch_size = 2],
     [RecOptionsDefault EXCEPT !.enable_batch = FALSE]}

EngConfigs ==
    {[enable_parallel |-> p, min_result_confidence |-> f, rec_options |-> o] :
        p \in BOOLEAN, f \in EngFloors, o \in EngRecOptionSets}

\* Networks: the one that answers as asked, and one that answers padding
\* with "," and reports a batch dimension one short
EngNets == {[pad |-> OneHot(0, 99), skew |-> 0], [pad |-> OneHot(2, 61), skew |-> -1]}

EngIdle ==
    /\ engPc = "off"
    /\ engConfig = [enable_parallel |-> TRUE, min_result_confidence |-> 50,
                    rec_options |-> RecOptionsDefault]
    /\ engDetected = Ok(<<>>)
    /\ engTasks = <<>>
    /\ engSlots = <<>>
    /\ engOrder = <<>>
    /\ engRec = Ok(<<>>)
    /\ engRecCalls = 0
    /\ engInfer = <<>>
    /\ engOut = Ok(<<>>)

\* An engine and the detections of one image.  The parallel path reads
\* neither the batch options nor the network's answers to a batch, so the
\* calls that take it are enumerated with those at one value.
EngInit ==
    /\ engPc = "idle"
    /\ engConfig \in EngConfigs
    /\ net \in EngNets
    /\ engDetected \in {Err("MnnError")}
                           \cup {Ok(EngDetections(c)) : c \in EngCropLists}
    /\ (engDetected.ok /\ EngParallelPath(engConfig, engDetected.val)) =>
           /\ engConfig.rec_options = RecOptionsDefault
           /\ engConfig.min_result_confidence = 60
           /\ NetIdle
    /\ engTasks = <<>>
    /\ engSlots = <<>>
    /\ engOrder = <<>>
    /\ engRec = Ok(<<>>)
    /\ engRecCalls = 0
    /\ engInfer = <<>>
    /\ engOut = Ok(<<>>)

\* A call of recognize that does not take the parallel path, to its return
RecognizeSequentialCall ==
    /\ engPc = "idle"
    /\ ~(engDetected.ok /\ EngParallelPath(engConfig, engDetected.val))
    /\ LET r == EngRecognizeSequential(engConfig, net, engDetected) IN
           /\ engOut' = r.out
           /\ engRec' = r.rec
           /\ engRecCalls' = r.calls
    /\ engInfer' = EngInferSequential(engConfig, net, engDetected)
    /\ engPc' = "done"
    /\ UNCHANGED <<engConfig, engDetected, engTasks, engSlots, engOrder, net>>

\* A call of recognize up to images.par_iter(): one task per crop
RecognizeFork ==
    /\ engPc = "idle"
    /\ engDetected.ok
    /\ EngParallelPath(engConfig, engDetected.val)
    /\ engTasks' = [i \in 1..Len(engDetected.val) |-> "pending"]
    /\ engPc' = "par"
    /\ UNCHANGED <<engConfig, engDetected, engSlots, engOrder, engRec,
                   engRecCalls, engInfer, engOut, net>>

\* A worker runs self.rec_model.recognize(img) on crop i
TaskRun(i) ==
    /\ engPc = "par"
    /\ engTasks[i] = "pending"
    /\ engSlots' = engSlots @@
           (i :> Recognize(net, engConfig.rec_options,
                           EngImages(engDetected.val)[i]))
    /\ engOrder' = Append(engOrder, i)
    /\ engTasks' = [engTasks EXCEPT ![i] = "done"]
    /\ engRecCalls' = engRecCalls + 1
    /\ engInfer' = Append(engInfer, 1)
    /\ UNCHANGED <<engPc, engConfig, engDetected, engRec, engOut, net>>

\* Once a task has failed, collect stops taking items: crop i is dropped
\* without its task having run
TaskSkip(i) ==
    /\ engPc = "par"
    /\ engTasks[i] = "pending"
    /\ \E j \in DOMAIN engSlots : ~engSlots[j].ok
    /\ engTasks' = [engTasks EXCEPT ![i] = "skipped"]
    /\ UNCHANGED <<engPc, engConfig, engDetected, engSlots, engOrder, engRec,
                   engRecCalls, engInfer, engOut, net>>

\* collect() returns when no task is left; step 3 and the return
RecognizeJoin ==
    /\ engPc = "par"
    /\ \A i \in DOMAIN engTasks : engTasks[i] # "pending"
    /\ LET rec == ParallelCollect(engSlots, engOrder, Len(engDetected.val)) IN
           /\ engRec' = rec
           /\ engOut' = EngCombine(rec, EngBoxes(engDetected.val),
                                   engConfig.min_result_confidence)
    /\ engPc' = "done"
    /\ UNCHANGED <<engConfig, engDetected, engTasks, engSlots, engOrder,
                   engRecCalls, engInfer, net>>

(***************************************************************************)
(* Bounds and input sets of the concurrent inference specification         *)
(***************************************************************************)
MaxThreads == 2

InferThreads == 1..MaxThreads

\* Input tensors of different shapes: single crops of width 1 and 3, one the
\* network fails on, and a batch of two crops padded to width 3
InferInputs ==
    {PreprocessForRec(<<0>>), PreprocessForRec(<<0, 255, 60>>),
     PreprocessForRec(<<200>>), PreprocessBatchForRec(<<<<60>>, <<0, 255, 60>>>>)}

InferNoLocal == [error_code |-> "none", output_data |-> 0]

InferIdle ==
    /\ infPc = <<>>
    /\ infInput = <<>>
    /\ infLocal = <<>>
    /\ infHeap = <<>>
    /\ infOut = <<>>

\* Every thread about to call run_dynamic on the one engine with its own
\* tensor; the native heap holds as many buffers as there are threads.
InferInit ==
    /\ infPc = [t \in InferThreads |-> "idle"]
    /\ infInput \in [InferThreads -> InferInputs]
    /\ net \in EngNets
    /\ infLocal = [t \in InferThreads |-> InferNoLocal]
    /\ infHeap = [a \in InferThreads |-> HeapFree]
    /\ infOut = [t \in InferThreads |-> Err("none")]

\* Thread t enters run_dynamic: input_shape and input_slice borrowed from its
\* argument, output_data null, output_size and output_ndims 0
InferEnter(t) ==
    /\ infPc[t] = "idle"
    /\ infLocal' = [infLocal EXCEPT ![t] = InferNoLocal]
    /\ infPc' = [infPc EXCEPT ![t] = "call"]
    /\ UNCHANGED <<infInput, infHeap, infOut, net>>

\* Thread t's call of ffi::mnnr_run_inference_dynamic with pointers to its
\* own locals
InferNative(t) ==
    /\ infPc[t] = "call"
    /\ LET r == MnnrRunInferenceDynamic(net, infHeap, infInput[t]) IN
           /\ infLocal' = [infLocal EXCEPT ![t] =
                  [error_code |-> r.error_code, output_data |-> r.output_data]]
           /\ infHeap' = r.heap
    /\ infPc' = [infPc EXCEPT ![t] = "called"]
    /\ UNCHANGED <<infInput, infOut, net>>

\* Thread t's return on a non-success code
InferFail(t) ==
    /\ infPc[t] = "called"
    /\ infLocal[t].error_code # "MNNR_SUCCESS"
    /\ infOut' = [infOut EXCEPT ![t] = Err("MnnError")]
    /\ infPc' = [infPc EXCEPT ![t] = "done"]
    /\ UNCHANGED <<infInput, infLocal, infHeap, net>>

\* Thread t copies the output buffer, frees it with mnnr_free_output and
\* returns the array
InferCopy(t) ==
    /\ infPc[t] = "called"
    /\ infLocal[t].error_code = "MNNR_SUCCESS"
    /\ LET a == InferOutputData(infLocal[t], infHeap) IN
           /\ infOut' = [infOut EXCEPT ![t] = Ok(infHeap[a])]
           /\ infHeap' = [infHeap EXCEPT ![a] = HeapFree]
    /\ infPc' = [infPc EXCEPT ![t] = "done"]
    /\ UNCHANGED <<infInput, infLocal, net>>

(***************************************************************************)
(* Bounds and input sets of the class_to_angle specification               *)
(***************************************************************************)
MaxClasses == 5

\* class_angles tables: none, the textline and the document presets, both
\* reversed, and tables of other angles and lengths
AngleTables ==
    {<<>>, <<0, 180>>, <<180, 0>>, <<0, 90, 180, 270>>, <<270, 180, 90, 0>>,
     <<0, 45, -90>>, <<7>>, <<0, 0, 0, 0, 0>>}

AngleIdle ==
    /\ ctaPc = "off"
    /\ ctaArgs = [num_classes |-> 1, class_idx |-> 0, class_angles |-> <<>>]
    /\ ctaOut = 0

AngleInit ==
    /\ ctaPc = "idle"
    /\ ctaArgs \in [num_classes : 1..MaxClasses, class_idx : 0..MaxClasses,
                    class_angles : AngleTables]
    /\ ctaOut = 0

\* A call class_to_angle(num_classes, class_idx, &class_angles)
ClassToAngleCall ==
    /\ ctaPc = "idle"
    /\ ctaOut' = ClassToAngle(ctaArgs.num_classes, ctaArgs.class_idx,
                              ctaArgs.class_angles)
    /\ ctaPc' = "done"
    /\ UNCHANGED ctaArgs

(***************************************************************************)
(* Bounds and input sets of the orientation step's specification           *)
(***************************************************************************)
\* ori_min_confidence: the default 0.3, and 0.5
OriFloors == {30, 50}

\* OriOptions: the document and the textline tables, tables with an angle
\* that is no multiple of 90 and with a negative one; a zero target height
OriOptionSets ==
    {[target_height |-> h, target_width |-> 224, class_angles |-> t] :
        h \in {0, 224},
        t \in {<<0, 90, 180, 270>>, <<0, 180>>, <<0, 45>>, <<0, -90>>}}

\* What run_dynamic returns for the orientation network on the image: an
\* error, outputs of no use, and weights of 2, 3 and 4 classes
OriAnswers ==
    {Err("MnnError"),
     Ok([shape |-> <<>>, data |-> <<1>>]),
     Ok([shape |-> <<1, 0>>, data |-> <<>>])}
    \cup {Ok([shape |-> <<1, Len(w)>>, data |-> w]) :
             w \in {<<1, 1>>, <<3, 1>>, <<1, 3>>, <<3, 7>>, <<7, 3>>,
                    <<1, 8, 1>>, <<1, 1, 8>>,
                    <<1, 1, 1, 1>>, <<7, 1, 1, 1>>, <<1, 7, 1, 1>>,
                    <<1, 1, 7, 1>>, <<1, 1, 1, 7>>, <<2, 1, 1, 6>>}}

OriImages == {Image(4, 2, 0), Image(3, 3, 0)}

OriIdle ==
    /\ oriPc = "off"
    /\ oriIn = [config |-> [ori_min_confidence |-> 30,
                            ori_options |-> [target_height |-> 224,
                                             target_width |-> 224,
                                             class_angles |-> <<0, 90, 180, 270>>]],
                has_ori_model |-> FALSE,
                answer |-> Err("MnnError"),
                image |-> Image(4, 2, 0)]
    /\ oriOut = Image(4, 2, 0)

\* An engine with or without an orientation model, and the caller's image
OriInit ==
    /\ oriPc = "idle"
    /\ oriIn \in [config : [ori_min_confidence : OriFloors,
                            ori_options : OriOptionSets],
                  has_ori_model : BOOLEAN,
                  answer : OriAnswers,
                  image : OriImages]
    /\ oriOut = oriIn.image

\* Step 0 of recognize: corrected_image, the image detection is handed
CorrectOrientationStep ==
    /\ oriPc = "idle"
    /\ oriOut' = CorrectedImage(oriIn.config, oriIn.has_ori_model,
                                oriIn.answer, oriIn.image)
    /\ oriPc' = "done"
    /\ UNCHANGED oriIn

(***************************************************************************)
(* Bounds and input sets of the extraction specification                   *)
(***************************************************************************)
MaxBlobs == 2

\* The mask (the padded network output) is 20 by 12
MaskSize == <<20, 12>>

\* Filled rectangles <<x, y, width, height>> of foreground pixels
ExtBlobMenu ==
    << <<5, 3, 10, 5>>, <<3, 3, 11, 6>>, <<0, 0, 1, 3>>, <<1, 1, 1, 1>>,
       <<0, 0, 2, 2>>, <<17, 9, 3, 3>>, <<14, 2, 5, 5>>, <<2, 2, 5, 5>> >>

\* At least one background pixel between the two rectangles, diagonals too
BlobsApart(a, b) ==
    \/ a[1] + a[3] < b[1]
    \/ b[1] + b[3] < a[1]
    \/ a[2] + a[4] < b[2]
    \/ b[2] + b[4] < a[2]

ExtBlobSets ==
    {S \in SUBSET (1..Len(ExtBlobMenu)) :
        /\ Cardinality(S) <= MaxBlobs
        /\ \A i, j \in S : i # j => BlobsApart(ExtBlobMenu[i], ExtBlobMenu[j])}

\* The row-major values of a MaskSize image: fg inside the blobs, bg outside
MaskOf(S, fg, bg) ==
    [k \in 1..(MaskSize[1] * MaskSize[2]) |->
        LET x == (k - 1) % MaskSize[1]
            y == (k - 1) \div MaskSize[1]
        IN  IF \E i \in S : /\ x >= ExtBlobMenu[i][1]
                            /\ x < ExtBlobMenu[i][1] + ExtBlobMenu[i][3]
                            /\ y >= ExtBlobMenu[i][2]
                            /\ y < ExtBlobMenu[i][2] + ExtBlobMenu[i][4]
            THEN fg ELSE bg]

\* The masks of blobs, and a buffer shorter than the image
ExtMasks == {MaskOf(S, 255, 0) : S \in ExtBlobSets} \cup {<<255, 255>>}

ExtValidRegions == {<<20, 12>>, <<16, 12>>, <<16, 8>>}
\* original size / valid size
ExtScales == {<<1, 4>>, <<1, 2>>, <<1, 1>>, <<3, 2>>, <<2, 1>>}
ExtMinAreas == {0, 16}
UnclipRatios == {<<1, 1>>, <<3, 2>>, <<2, 1>>, <<5, 2>>}

ExtIdle ==
    /\ extPc = "off"
    /\ extIn = <<>>
    /\ extSteps = <<>>
    /\ extOut = <<>>

ExtInit ==
    /\ extPc = "start"
    /\ \E mask \in ExtMasks, valid \in ExtValidRegions, scale \in ExtScales,
          minArea \in ExtMinAreas, ratio \in UnclipRatios :
           extIn = [mask |-> mask,
                    mask_width |-> MaskSize[1], mask_height |-> MaskSize[2],
                    valid_width |-> valid[1], valid_height |-> valid[2],
                    original_width |-> (valid[1] * scale[1]) \div scale[2],
                    original_height |-> (valid[2] * scale[1]) \div scale[2],
                    min_area |-> minArea, unclip_ratio |-> ratio]
    /\ extSteps = <<>>
    /\ extOut = <<>>

\* One call of extract_boxes_with_unclip
ExtractCall ==
    /\ extPc = "start"
    /\ extPc' = "done"
    /\ extSteps' = ExtractSteps(extIn.mask, extIn.mask_width, extIn.mask_height,
                                extIn.valid_width, extIn.valid_height,
                                extIn.original_width, extIn.original_height,
                                extIn.min_area, extIn.unclip_ratio)
    /\ extOut' = ExtractBoxesWithUnclip(
                     extIn.mask, extIn.mask_width, extIn.mask_height,
                     extIn.valid_width, extIn.valid_height,
                     extIn.original_width, extIn.original_height,
                     extIn.min_area, extIn.unclip_ratio)
    /\ UNCHANGED extIn

(***************************************************************************)
(* Bounds and input sets of the detection specification                    *)
(***************************************************************************)
\* DetOptions: score_threshold in hundredths
DetOptionSets ==
    [max_side_len : {20, 960}, score_threshold : {30, 50},
     min_area : {16}, unclip_ratio : {<<3, 2>>, <<2, 1>>}]

\* <<width, height>> of the images given to detect
DetImages == {<<20, 12>>, <<16, 12>>, <<40, 24>>, <<10, 6>>}

\* Score maps: text of score 30 or 90 on background 0, blank maps of 0 and 10
DetScoreMaps ==
    {MaskOf(S, fg, 0) : S \in {T \in ExtBlobSets : Cardinality(T) = 1},
                        fg \in {30, 90}}
        \cup {MaskOf({}, 0, 0), MaskOf({}, 0, 10)}

\* The shapes the capability reports for the 240 scores
DetShapes == {<<>>, <<240>>, <<12, 20>>, <<1, 12, 20>>, <<1, 1, 12, 20>>}

DetAnswers ==
    {Err("MnnError")}
        \cup {Ok([shape |-> s, data |-> d]) : s \in DetShapes, d \in DetScoreMaps}

\* The outputs the capability hands to recognize, of rank 0 to 5
RecRankAnswers ==
    {Err("MnnError")}
        \cup {Ok([rank |-> r, samples |-> <<rows>>]) :
                  r \in 0..5, rows \in SeqsUpTo({OneHot(1, 61), OneHot(0, 99)}, 2)}

DetIdle ==
    /\ detPc = "off"
    /\ detIn = <<>>
    /\ detOut = <<>>

DetInit ==
    /\ detPc = "start"
    /\ \/ \E o \in DetOptionSets, img \in DetImages, a \in DetAnswers :
              detIn = [op |-> "detect", options |-> o, image |-> img, answer |-> a]
       \/ \E o \in RecOptionSets, a \in RecRankAnswers :
              detIn = [op |-> "recognize", options |-> o, image |-> <<0, 0>>,
                       answer |-> a]
    /\ detOut = <<>>

\* One call of DetModel::detect
DetectCall ==
    /\ detPc = "start"
    /\ detIn.op = "detect"
    /\ detPc' = "done"
    /\ detOut' = Detect(detIn.options, detIn.image, detIn.answer)
    /\ UNCHANGED detIn

\* One call of RecModel::recognize
RecognizeCall ==
    /\ detPc = "start"
    /\ detIn.op = "recognize"
    /\ detPc' = "done"
    /\ detOut' = RecognizeAnswer(detIn.answer, detIn.options)
    /\ UNCHANGED detIn

(***************************************************************************)
(* Bounds and input sets of the charset specification                      *)
(***************************************************************************)
MaxBytes == 4

\* 'a', ' ', '\n', '\r', the two bytes of U+00E4 and the byte 0xFF
CharsetBytes == {97, 32, 10, 13, 195, 164, 255}

CharsetIdle ==
    /\ csPc = "off"
    /\ csIn = <<>>
    /\ csOut = Ok(<<>>)

CharsetInit ==
    /\ csPc = "start"
    /\ \E engine \in {Ok("engine"), Err("MnnError")},
          data \in SeqsUpTo(CharsetBytes, MaxBytes) :
           csIn = [engine |-> engine, data |-> data]
    /\ csOut = Ok(<<>>)

\* One call of parse_charset
ParseCharsetCall ==
    /\ csPc = "start"
    /\ csPc' = "parsed"
    /\ csOut' = ParseCharset(csIn.data)
    /\ UNCHANGED csIn

\* One call of from_bytes_with_charset
FromBytesWithCharsetCall ==
    /\ csPc = "start"
    /\ csPc' = "built"
    /\ csOut' = FromBytesWithCharset(csIn.engine, csIn.data)
    /\ UNCHANGED csIn

(***************************************************************************)
(* Bounds and actions of the worker pool specification: the parallel path  *)
(* of OcrEngine::recognize with tasks that start and finish, on a pool of  *)
(* MaxWorkers workers.                                                     *)
(***************************************************************************)
MaxWorkers == 2

\* collect() returning without waiting for the tasks that are running.
PoolNoneRunningUnchecked(tasks) == TRUE

\* collect() returns to recognize once no task of the par_iter is running
PoolNoneRunning(tasks) == \A i \in DOMAIN tasks : tasks[i] # "running"

\* The lists of MaxCrops crops that are all read, or read but for one crop
\* the network fails on
PoolCropLists ==
    {c \in EngCropLists :
        Len(c) = MaxCrops /\ \A i \in 1..Len(c) : c[i] \in {<<0>>, <<200>>}}

\* The calls of recognize on these lists, which take the parallel path
PoolInit ==
    /\ EngInit
    /\ engConfig.enable_parallel
    /\ engDetected \in {Ok(EngDetections(c)) : c \in PoolCropLists}

\* A free worker takes crop i: self.rec_model.recognize(img) begins
WorkerStart(i) ==
    /\ engPc = "par"
    /\ engTasks[i] = "pending"
    /\ Cardinality({j \in DOMAIN engTasks : engTasks[j] = "running"}) < MaxWorkers
    /\ engTasks' = [engTasks EXCEPT ![i] = "running"]
    /\ engRecCalls' = engRecCalls + 1
    /\ UNCHANGED <<engPc, engConfig, engDetected, engSlots, engOrder, engRec,
                   engInfer, engOut, net>>

\* The recognize of crop i returns; it has spawned no task
WorkerFinish(i) ==
    /\ engPc = "par"
    /\ engTasks[i] = "running"
    /\ engSlots' = engSlots @@
           (i :> Recognize(net, engConfig.rec_options,
                           EngImages(engDetected.val)[i]))
    /\ engOrder' = Append(engOrder, i)
    /\ engTasks' = [engTasks EXCEPT ![i] = "done"]
    /\ engInfer' = Append(engInfer, 1)
    /\ UNCHANGED <<engPc, engConfig, engDetected, engRec, engRecCalls, engOut,
                   net>>

\* collect() returns: step 3 and the return of recognize
PoolJoin ==
    /\ PoolNoneRunning(engTasks)
    /\ RecognizeJoin

\* The positions of the calling thread and of the tasks
PoolPositions == <<engPc, engTasks>>

\* The moves of the calling thread and of the tasks, by the positions alone:
\* the fork, a task starting, finishing or being dropped, the return.  With
\* the actions above, a step of it is a step of one of them.
PoolAdvance ==
    \/ /\ engPc = "idle"
       /\ engPc' = "par"
       /\ engTasks' = [i \in 1..Len(engDetected.val) |-> "pending"]
    \/ \E i \in DOMAIN engTasks :
           /\ engPc = "par"
           /\ engPc' = engPc
           /\ \/ /\ engTasks[i] = "pending"
                 /\ Cardinality({j \in DOMAIN engTasks : engTasks[j] = "running"})
                        < MaxWorkers
                 /\ engTasks' = [engTasks EXCEPT ![i] = "running"]
              \/ /\ engTasks[i] = "running"
                 /\ engTasks' = [engTasks EXCEPT ![i] = "done"]
              \/ /\ engTasks[i] = "pending"
                 /\ \E j \in DOMAIN engSlots : ~engSlots[j].ok
                 /\ engTasks' = [engTasks EXCEPT ![i] = "skipped"]
    \/ /\ engPc = "par"
       /\ \A i \in DOMAIN engTasks : engTasks[i] \in {"done", "skipped"}
       /\ engPc' = "done"
       /\ engTasks' = engTasks

(***************************************************************************)
(* Input sets and actions of the configuration specification               *)
(***************************************************************************)
CfgBackends == {"CPU", "Metal", "OpenCL"}
CfgThreads == {1, 4, 8}
CfgFloors == {30, 50, 70}

ConfigIdle ==
    /\ cfgPc = "off"
    /\ cfg = OcrEngineConfigDefault

\* OcrEngineConfig::new(), OcrEngineConfig::default(), or the preset
\* OcrEngineConfig::fast()
ConfigInit ==
    \/ /\ cfgPc = "new"
       /\ cfg = OcrEngineConfigDefault
    \/ /\ cfgPc = "fast"
       /\ cfg = OcrEngineConfigFast

WithBackend(backend) ==
    /\ cfgPc \in {"new", "fast", "set"}
    /\ cfg' = [cfg EXCEPT !.backend = backend]
    /\ cfgPc' = "set"

WithThreads(threads) ==
    /\ cfgPc \in {"new", "fast", "set"}
    /\ cfg' = [cfg EXCEPT !.thread_count = threads]
    /\ cfgPc' = "set"

WithParallel(enable) ==
    /\ cfgPc \in {"new", "fast", "set"}
    /\ cfg' = [cfg EXCEPT !.enable_parallel = enable]
    /\ cfgPc' = "set"

WithMinResultConfidence(threshold) ==
    /\ cfgPc \in {"new", "fast", "set"}
    /\ cfg' = [cfg EXCEPT !.min_result_confidence = threshold]
    /\ cfgPc' = "set"

WithOriMinConfidence(threshold) ==
    /\ cfgPc \in {"new", "fast", "set"}
    /\ cfg' = [cfg EXCEPT !.ori_min_confidence = threshold]
    /\ cfgPc' = "set"

(***************************************************************************)
(* Bounds and input sets of the merge specification                        *)
(***************************************************************************)
MaxMergeBoxes == 3

\* Boxes in two columns of words and a tall box to their right
MergeRectSet ==
    {Rect(0, 0, 2, 1), Rect(0, 0, 2, 2), Rect(0, 2, 2, 2), Rect(3, 0, 2, 1),
     Rect(3, 2, 2, 2), Rect(7, 0, 2, 4), Rect(7, 2, 2, 2), Rect(12, 0, 2, 1)}

MergeBoxSet == {TextBox(r, <<100, 1>>) : r \in MergeRectSet}

MergeThresholds == {1, 2}

MergeIdle ==
    /\ mrgPc = "off"
    /\ mrgIn = <<>>
    /\ mrgOut = <<>>

MergeInit ==
    /\ mrgPc = "start"
    /\ \E boxes \in SeqsUpTo(MergeBoxSet, MaxMergeBoxes), thr \in MergeThresholds :
           mrgIn = [boxes |-> boxes, distance_threshold |-> thr]
    /\ mrgOut = <<>>

\* One call of merge_adjacent_boxes
MergeCall ==
    /\ mrgPc = "start"
    /\ mrgPc' = "done"
    /\ mrgOut' = MergeAdjacentBoxes(mrgIn.boxes, mrgIn.distance_threshold)
    /\ UNCHANGED mrgIn

(***************************************************************************)
(* Bounds and input sets of the line grouping specification                *)
(***************************************************************************)
MaxLineBoxes == 3

\* Boxes of 50 by 20 at two columns and at tops 0, 8, 16 and 50
LineBoxSet ==
    {TextBox(Rect(l, t, 50, 20), 90) : l \in {0, 60}, t \in {0, 8, 16, 50}}

\* line_threshold: the 10 of the tests, 0, and a negative one
LineThresholds == {10, 0, -1}

LineIdle ==
    /\ linePc = "off"
    /\ lineIn = [boxes |-> <<>>, line_threshold |-> 10]
    /\ lineOut = <<>>

LineInit ==
    /\ linePc = "start"
    /\ \E boxes \in SeqsUpTo(LineBoxSet, MaxLineBoxes), thr \in LineThresholds :
           lineIn = [boxes |-> boxes, line_threshold |-> thr]
    /\ lineOut = <<>>

\* A call group_boxes_by_line(&boxes, line_threshold)
GroupBoxesByLineCall ==
    /\ linePc = "start"
    /\ lineOut' = GroupBoxesByLine(lineIn.boxes, lineIn.line_threshold)
    /\ linePc' = "done"
    /\ UNCHANGED lineIn

(***************************************************************************)
(* Input sets and actions of the IoU specification                         *)
(***************************************************************************)
\* Rectangles of sides 1 to 3 about the origin, some reaching left of it
IouRectSet ==
    {Rect(l, t, w, h) : l \in {-1, 0, 2}, t \in {0, 1}, w \in 1..3, h \in 1..3}

IouIdle ==
    /\ iouPc = "off"
    /\ iouIn = [a |-> Rect(0, 0, 1, 1), b |-> Rect(0, 0, 1, 1)]
    /\ iouOut = <<0, 1>>

IouInit ==
    /\ iouPc = "start"
    /\ \E a \in IouRectSet, b \in IouRectSet : iouIn = [a |-> a, b |-> b]
    /\ iouOut = <<0, 1>>

\* A call compute_iou(&a, &b)
ComputeIouCall ==
    /\ iouPc = "start"
    /\ iouOut' = ComputeIou(iouIn.a, iouIn.b)
    /\ iouPc' = "done"
    /\ UNCHANGED iouIn

(***************************************************************************)
(* Input sets and actions of the expansion specification                   *)
(***************************************************************************)
\* The sizes of the caller's image
ExpandImageSizes == {<<8, 6>>, <<5, 5>>}

\* The rectangles inside an image of that size
ExpandRectsInside(size) ==
    {r \in [left : 0..(size[1] - 1), top : 0..(size[2] - 1),
            width : 1..size[1], height : 1..size[2]] :
        r.left + r.width <= size[1] /\ r.top + r.height <= size[2]}

\* What detect returned: one box anywhere inside the image, or two boxes at
\* opposite corners
ExpandBoxLists(size) ==
    {<<TextBox(r, 90)>> : r \in ExpandRectsInside(size)}
        \cup {<<TextBox(Rect(0, 0, 2, 1), 90),
                TextBox(Rect(size[1] - w, size[2] - 2, w, 2), 60)>> : w \in 1..2}

\* box_border: none, the default 5, and smaller ones
ExpandBorders == {0, 1, 2, 5}

ExpandIdle ==
    /\ expPc = "off"
    /\ expIn = [width |-> 1, height |-> 1, boxes |-> <<>>, box_border |-> 5]
    /\ expOut = <<>>

ExpandInit ==
    /\ expPc = "start"
    /\ \E size \in ExpandImageSizes, border \in ExpandBorders :
           \E boxes \in ExpandBoxLists(size) :
               expIn = [width |-> size[1], height |-> size[2],
                        boxes |-> boxes, box_border |-> border]
    /\ expOut = <<>>

\* detect_and_crop from the return of detect on
DetectAndCropCall ==
    /\ expPc = "start"
    /\ expOut' = DetectAndCropBoxes(expIn.width, expIn.height, expIn.boxes,
                                    expIn.box_border)
    /\ expPc' = "done"
    /\ UNCHANGED expIn

(***************************************************************************)
(* Input sets and actions of the specification of the boxes' frame         *)
(***************************************************************************)
\* The caller's images: a wide one, a tall one and a square one
FrameImages == {Image(8, 6, 0), Image(6, 8, 0), Image(5, 5, 0)}

\* What run_dynamic returns for the orientation network: an error, or the
\* weights of four classes with one of them ahead
FrameOriAnswers ==
    {Err("MnnError")}
        \cup {Ok([shape |-> <<1, 4>>, data |-> w]) :
                 w \in {<<7, 1, 1, 1>>, <<1, 7, 1, 1>>, <<1, 1, 7, 1>>,
                        <<1, 1, 1, 7>>}}

\* What detect finds in an image of that size: nothing, a box at one of its
\* corners, or boxes at two opposite corners
FrameDetected(img) ==
    LET first == TextBox(Rect(0, 0, 2, 1), 90)
        last == TextBox(Rect(img.width - 2, img.height - 2, 2, 2), 60)
    IN  {<<>>, <<first>>, <<last>>, <<first, last>>}

\* What recognition reads in a crop: a character, surely or not
FrameRecResults ==
    {[text |-> <<"a">>, confidence |-> <<c, 1>>] : c \in {90, 10}}

FrameIdle ==
    /\ frmPc = "off"
    /\ frmIn = [config |-> OcrEngineConfigDefault, has_ori_model |-> FALSE,
                answer |-> Err("MnnError"), image |-> Image(8, 6, 0)]
    /\ frmCorrected = Image(8, 6, 0)
    /\ frmOut = <<>>

\* An engine with or without an orientation model, and the caller's image
FrameInit ==
    /\ frmPc = "idle"
    /\ frmIn \in [config : {OcrEngineConfigDefault}, has_ori_model : BOOLEAN,
                  answer : FrameOriAnswers, image : FrameImages]
    /\ frmCorrected = frmIn.image
    /\ frmOut = <<>>

\* A call recognize(image) that returns Ok: step 0, detect_and_crop on the
\* corrected image, recognition of the crops, step 3
RecognizeBoxesCall ==
    /\ frmPc = "idle"
    /\ LET corrected == CorrectedImage(frmIn.config, frmIn.has_ori_model,
                                       frmIn.answer, frmIn.image)
       IN  /\ frmCorrected' = corrected
           /\ \E boxes \in FrameDetected(corrected) :
                  \E rec \in [1..Len(boxes) -> FrameRecResults] :
                      LET detections ==
                              DetectAndCropBoxes(corrected.width, corrected.height,
                                                 boxes, frmIn.config.det_options.box_border)
                      IN  frmOut' = EngCombine(Ok(rec), EngBoxes(detections),
                                               frmIn.config.min_result_confidence).val
    /\ frmPc' = "done"
    /\ UNCHANGED frmIn

(***************************************************************************)
(* backend: ocr.rs spawn_ocr_task, routes/media.rs upload and replace_file *)
(*                                                                         *)
(* One media item, the file of its upload and the file of a replacement.  *)
(* A handler or a task gives way at each .await; a step here runs from one *)
(* .await to the next.                                                     *)
(***************************************************************************)
UploadedFile == "uploaded file"
ReplacementFile == "replacement file"
MediaFiles == {UploadedFile, ReplacementFile}

\* ocr_text IS NULL, and recognize returning None
NoText == "NULL"

\* What recognize returns for a file: None, or Some of its text
OcrTextsOf(f) == {NoText, IF f = UploadedFile THEN "old text" ELSE "new text"}

\* tokio::spawn(async move { .. }): the task before its first .await
SpawnedTask(file) == [pc |-> "spawned", file |-> file, result |-> NoText]

BackgroundIdle ==
    /\ rplPc = "off"
    /\ rplOld = "none"
    /\ mediaRow = [file_path |-> UploadedFile, ocr_text |-> NoText]
    /\ storage = {}
    /\ ocrTasks = <<>>
    /\ ocrTexts = [f \in MediaFiles |-> NoText]

\* After upload returned: the file stored, the row inserted with no
\* ocr_text, the task for the file spawned (the engine is there)
BackgroundInit ==
    /\ rplPc = "idle"
    /\ rplOld = "none"
    /\ mediaRow = [file_path |-> UploadedFile, ocr_text |-> NoText]
    /\ storage = {UploadedFile}
    /\ ocrTasks = <<SpawnedTask(UploadedFile)>>
    /\ \E texts \in [MediaFiles -> {NoText, "old text", "new text"}] :
           /\ \A f \in MediaFiles : texts[f] \in OcrTextsOf(f)
           /\ ocrTexts = texts

\* tokio::fs::read(&file_path).await: the bytes, or a warning and return
TaskRead(i) ==
    /\ ocrTasks[i].pc = "spawned"
    /\ ocrTasks' = [ocrTasks EXCEPT ![i].pc =
                       IF ocrTasks[i].file \in storage THEN "read" ELSE "done"]
    /\ UNCHANGED <<rplPc, rplOld, mediaRow, storage, ocrTexts>>

\* spawn_blocking(move || recognize(&engine, &bytes)).await
TaskRecognize(i) ==
    /\ ocrTasks[i].pc = "read"
    /\ ocrTasks' = [ocrTasks EXCEPT ![i].pc = "recognized",
                                    ![i].result = ocrTexts[ocrTasks[i].file]]
    /\ UNCHANGED <<rplPc, rplOld, mediaRow, storage, ocrTexts>>

\* Ok(Some(text)) => UPDATE media SET ocr_text = $1 WHERE id = $2
TaskWrites(task, row) == task.result # NoText

\* match result: the UPDATE for Some(text), nothing for None
TaskUpdate(i) ==
    /\ ocrTasks[i].pc = "recognized"
    /\ mediaRow' = IF TaskWrites(ocrTasks[i], mediaRow)
                   THEN [mediaRow EXCEPT !.ocr_text = ocrTasks[i].result]
                   ELSE mediaRow
    /\ ocrTasks' = [ocrTasks EXCEPT ![i].pc = "done"]
    /\ UNCHANGED <<rplPc, rplOld, storage, ocrTexts>>

\* replace_file: SELECT * FROM media WHERE id = $1
ReplaceSelect ==
    /\ rplPc = "idle"
    /\ rplOld' = mediaRow.file_path
    /\ rplPc' = "selected"
    /\ UNCHANGED <<mediaRow, storage, ocrTasks, ocrTexts>>

\* state.storage.put(&file_name, &bytes, &mime)
ReplacePut ==
    /\ rplPc = "selected"
    /\ storage' = storage \cup {ReplacementFile}
    /\ rplPc' = "stored"
    /\ UNCHANGED <<rplOld, mediaRow, ocrTasks, ocrTexts>>

\* state.storage.delete(&old_media.file_path)
ReplaceDelete ==
    /\ rplPc = "stored"
    /\ storage' = storage \ {rplOld}
    /\ rplPc' = "deleted"
    /\ UNCHANGED <<rplOld, mediaRow, ocrTasks, ocrTexts>>

\* UPDATE media SET file_path = $1, .., ocr_text = NULL WHERE id = $7
ReplaceUpdate ==
    /\ rplPc = "deleted"
    /\ mediaRow' = [file_path |-> ReplacementFile, ocr_text |-> NoText]
    /\ rplPc' = "updated"
    /\ UNCHANGED <<rplOld, storage, ocrTasks, ocrTexts>>

\* spawn_ocr_task for the new file, and the return of replace_file
ReplaceSpawn ==
    /\ rplPc = "updated"
    /\ ocrTasks' = Append(ocrTasks, SpawnedTask(ReplacementFile))
    /\ rplPc' = "done"
    /\ UNCHANGED <<rplOld, mediaRow, storage, ocrTexts>>

(***************************************************************************)
(* Specifications                                                          *)
(***************************************************************************)
\* Calls of nms on bounded lists of boxes
SpecNmsInit == NmsInit /\ DecIdle /\ NetIdle /\ RecIdle /\ EngIdle
    /\ InferIdle /\ AngleIdle /\ OriIdle /\ ExtIdle /\ DetIdle /\ CharsetIdle
    /\ ConfigIdle /\ MergeIdle /\ LineIdle /\ IouIdle /\ ExpandIdle
    /\ FrameIdle /\ BackgroundIdle
SpecNmsOthers == <<decVars, net, recVars, engVars, infVars, ctaVars, oriVars,
                    extVars, detVars, csVars, cfgVars, mrgVars, lineVars,
                    iouVars, expVars, frmVars, bgVars>>
SpecNmsNext == NmsCall /\ UNCHANGED SpecNmsOthers
SpecNms == SpecNmsInit /\ [][SpecNmsNext]_vars

\* Calls of decode_output on bounded output tensors
SpecDecodeInit == DecInit /\ NmsIdle /\ NetIdle /\ RecIdle /\ EngIdle
    /\ InferIdle /\ AngleIdle /\ OriIdle /\ ExtIdle /\ DetIdle /\ CharsetIdle
    /\ ConfigIdle /\ MergeIdle /\ LineIdle /\ IouIdle /\ ExpandIdle
    /\ FrameIdle /\ BackgroundIdle
SpecDecodeOthers == <<nmsVars, net, recVars, engVars, infVars, ctaVars,
                       oriVars, extVars, detVars, csVars, cfgVars, mrgVars,
                       lineVars, iouVars, expVars, frmVars, bgVars>>
SpecDecodeNext == DecodeCall /\ UNCHANGED SpecDecodeOthers
SpecDecode == SpecDecodeInit /\ [][SpecDecodeNext]_vars

\* Calls of RecModel::recognize_batch on bounded lists of crops
SpecRecInit == RecInit /\ NmsIdle /\ DecIdle /\ EngIdle /\ InferIdle
    /\ AngleIdle /\ OriIdle /\ ExtIdle /\ DetIdle /\ CharsetIdle /\ ConfigIdle
    /\ MergeIdle /\ LineIdle /\ IouIdle /\ ExpandIdle /\ FrameIdle
    /\ BackgroundIdle
SpecRecOthers == <<nmsVars, decVars, engVars, infVars, ctaVars, oriVars,
                    extVars, detVars, csVars, cfgVars, mrgVars, lineVars,
                    iouVars, expVars, frmVars, bgVars>>
SpecRecNext == RecognizeBatchCall /\ UNCHANGED SpecRecOthers
SpecRec == SpecRecInit /\ [][SpecRecNext]_vars

\* Calls of OcrEngine::recognize on bounded lists of detections
SpecEngineInit == EngInit /\ NmsIdle /\ DecIdle /\ RecIdle /\ InferIdle
    /\ AngleIdle /\ OriIdle /\ ExtIdle /\ DetIdle /\ CharsetIdle /\ ConfigIdle
    /\ MergeIdle /\ LineIdle /\ IouIdle /\ ExpandIdle /\ FrameIdle
    /\ BackgroundIdle
SpecEngineOthers == <<nmsVars, decVars, recVars, infVars, ctaVars, oriVars,
                       extVars, detVars, csVars, cfgVars, mrgVars, lineVars,
                       iouVars, expVars, frmVars, bgVars>>
SpecEngineNext ==
    \/ RecognizeSequentialCall /\ UNCHANGED SpecEngineOthers
    \/ RecognizeFork /\ UNCHANGED SpecEngineOthers
    \/ \E i \in 1..MaxCrops : TaskRun(i) /\ UNCHANGED SpecEngineOthers
    \/ \E i \in 1..MaxCrops : TaskSkip(i) /\ UNCHANGED SpecEngineOthers
    \/ RecognizeJoin /\ UNCHANGED SpecEngineOthers
SpecEngine == SpecEngineInit /\ [][SpecEngineNext]_vars

\* Threads calling run_dynamic on one InferenceEngine at the same time
SpecInferInit == InferInit /\ NmsIdle /\ DecIdle /\ RecIdle /\ EngIdle
    /\ AngleIdle /\ OriIdle /\ ExtIdle /\ DetIdle /\ CharsetIdle /\ ConfigIdle
    /\ MergeIdle /\ LineIdle /\ IouIdle /\ ExpandIdle /\ FrameIdle
    /\ BackgroundIdle
SpecInferOthers == <<nmsVars, decVars, recVars, engVars, ctaVars, oriVars,
                      extVars, detVars, csVars, cfgVars, mrgVars, lineVars,
                      iouVars, expVars, frmVars, bgVars>>
SpecInferNext ==
    \/ \E t \in InferThreads : InferEnter(t) /\ UNCHANGED SpecInferOthers
    \/ \E t \in InferThreads : InferNative(t) /\ UNCHANGED SpecInferOthers
    \/ \E t \in InferThreads : InferFail(t) /\ UNCHANGED SpecInferOthers
    \/ \E t \in InferThreads : InferCopy(t) /\ UNCHANGED SpecInferOthers
SpecInfer == SpecInferInit /\ [][SpecInferNext]_vars

\* Calls of class_to_angle on bounded class counts and tables
SpecAngleInit == AngleInit /\ NmsIdle /\ DecIdle /\ NetIdle /\ RecIdle
    /\ EngIdle /\ InferIdle /\ OriIdle /\ ExtIdle /\ DetIdle /\ CharsetIdle
    /\ ConfigIdle /\ MergeIdle /\ LineIdle /\ IouIdle /\ ExpandIdle
    /\ FrameIdle /\ BackgroundIdle
SpecAngleOthers == <<nmsVars, decVars, net, recVars, engVars, infVars,
                      oriVars, extVars, detVars, csVars, cfgVars, mrgVars,
                      lineVars, iouVars, expVars, frmVars, bgVars>>
SpecAngleNext == ClassToAngleCall /\ UNCHANGED SpecAngleOthers
SpecAngle == SpecAngleInit /\ [][SpecAngleNext]_vars

\* Step 0 of OcrEngine::recognize: the orientation correction
SpecOriInit == OriInit /\ NmsIdle /\ DecIdle /\ NetIdle /\ RecIdle /\ EngIdle
    /\ InferIdle /\ AngleIdle /\ ExtIdle /\ DetIdle /\ CharsetIdle
    /\ ConfigIdle /\ MergeIdle /\ LineIdle /\ IouIdle /\ ExpandIdle
    /\ FrameIdle /\ BackgroundIdle
SpecOriOthers == <<nmsVars, decVars, net, recVars, engVars, infVars, ctaVars,
                    extVars, detVars, csVars, cfgVars, mrgVars, lineVars,
                    iouVars, expVars, frmVars, bgVars>>
SpecOriNext == CorrectOrientationStep /\ UNCHANGED SpecOriOthers
SpecOri == SpecOriInit /\ [][SpecOriNext]_vars

\* Calls of extract_boxes_with_unclip on masks of rectangular blobs
SpecExtractInit == ExtInit /\ NmsIdle /\ DecIdle /\ NetIdle /\ RecIdle
    /\ EngIdle /\ InferIdle /\ AngleIdle /\ OriIdle /\ DetIdle /\ CharsetIdle
    /\ ConfigIdle /\ MergeIdle /\ LineIdle /\ IouIdle /\ ExpandIdle
    /\ FrameIdle /\ BackgroundIdle
SpecExtractOthers == <<nmsVars, decVars, net, recVars, engVars, infVars,
                        ctaVars, oriVars, detVars, csVars, cfgVars, mrgVars,
                        lineVars, iouVars, expVars, frmVars, bgVars>>
SpecExtractNext == ExtractCall /\ UNCHANGED SpecExtractOthers
SpecExtract == SpecExtractInit /\ [][SpecExtractNext]_vars

\* Calls of DetModel::detect and RecModel::recognize on the answers of the capability
SpecDetectInit == DetInit /\ NmsIdle /\ DecIdle /\ NetIdle /\ RecIdle
    /\ EngIdle /\ InferIdle /\ AngleIdle /\ OriIdle /\ ExtIdle /\ CharsetIdle
    /\ ConfigIdle /\ MergeIdle /\ LineIdle /\ IouIdle /\ ExpandIdle
    /\ FrameIdle /\ BackgroundIdle
SpecDetectOthers == <<nmsVars, decVars, net, recVars, engVars, infVars,
                       ctaVars, oriVars, extVars, csVars, cfgVars, mrgVars,
                       lineVars, iouVars, expVars, frmVars, bgVars>>
SpecDetectNext ==
    \/ DetectCall /\ UNCHANGED SpecDetectOthers
    \/ RecognizeCall /\ UNCHANGED SpecDetectOthers
SpecDetect == SpecDetectInit /\ [][SpecDetectNext]_vars

\* Calls of parse_charset and from_bytes_with_charset on bounded byte strings
SpecCharsetInit == CharsetInit /\ NmsIdle /\ DecIdle /\ NetIdle /\ RecIdle
    /\ EngIdle /\ InferIdle /\ AngleIdle /\ OriIdle /\ ExtIdle /\ DetIdle
    /\ ConfigIdle /\ MergeIdle /\ LineIdle /\ IouIdle /\ ExpandIdle
    /\ FrameIdle /\ BackgroundIdle
SpecCharsetOthers == <<nmsVars, decVars, net, recVars, engVars, infVars,
                        ctaVars, oriVars, extVars, detVars, cfgVars, mrgVars,
                        lineVars, iouVars, expVars, frmVars, bgVars>>
SpecCharsetNext ==
    \/ ParseCharsetCall /\ UNCHANGED SpecCharsetOthers
    \/ FromBytesWithCharsetCall /\ UNCHANGED SpecCharsetOthers
SpecCharset == SpecCharsetInit /\ [][SpecCharsetNext]_vars

\* The parallel path of OcrEngine::recognize on a bounded worker pool, fairly scheduled
SpecPoolInit == PoolInit /\ NmsIdle /\ DecIdle /\ RecIdle /\ InferIdle
    /\ AngleIdle /\ OriIdle /\ ExtIdle /\ DetIdle /\ CharsetIdle /\ ConfigIdle
    /\ MergeIdle /\ LineIdle /\ IouIdle /\ ExpandIdle /\ FrameIdle
    /\ BackgroundIdle
SpecPoolOthers == <<nmsVars, decVars, recVars, infVars, ctaVars, oriVars,
                     extVars, detVars, csVars, cfgVars, mrgVars, lineVars,
                     iouVars, expVars, frmVars, bgVars>>
SpecPoolNext ==
    \/ RecognizeFork /\ UNCHANGED SpecPoolOthers
    \/ \E i \in 1..MaxCrops : WorkerStart(i) /\ UNCHANGED SpecPoolOthers
    \/ \E i \in 1..MaxCrops : WorkerFinish(i) /\ UNCHANGED SpecPoolOthers
    \/ \E i \in 1..MaxCrops : TaskSkip(i) /\ UNCHANGED SpecPoolOthers
    \/ PoolJoin /\ UNCHANGED SpecPoolOthers
\* The calling thread and the workers keep running: a possible step is taken
SpecPoolFair ==
    /\ WF_PoolPositions(PoolAdvance)
SpecPool == SpecPoolInit /\ [][SpecPoolNext]_vars /\ SpecPoolFair

\* OcrEngineConfig::default() and the with_* methods applied to it
SpecConfigInit == ConfigInit /\ NmsIdle /\ DecIdle /\ NetIdle /\ RecIdle
    /\ EngIdle /\ InferIdle /\ AngleIdle /\ OriIdle /\ ExtIdle /\ DetIdle
    /\ CharsetIdle /\ MergeIdle /\ LineIdle /\ IouIdle /\ ExpandIdle
    /\ FrameIdle /\ BackgroundIdle
SpecConfigOthers == <<nmsVars, decVars, net, recVars, engVars, infVars,
                       ctaVars, oriVars, extVars, detVars, csVars, mrgVars,
                       lineVars, iouVars, expVars, frmVars, bgVars>>
SpecConfigNext ==
    \/ \E b \in CfgBackends : WithBackend(b) /\ UNCHANGED SpecConfigOthers
    \/ \E n \in CfgThreads : WithThreads(n) /\ UNCHANGED SpecConfigOthers
    \/ \E b \in BOOLEAN : WithParallel(b) /\ UNCHANGED SpecConfigOthers
    \/ \E f \in CfgFloors : WithMinResultConfidence(f) /\ UNCHANGED SpecConfigOthers
    \/ \E f \in CfgFloors : WithOriMinConfidence(f) /\ UNCHANGED SpecConfigOthers
SpecConfig == SpecConfigInit /\ [][SpecConfigNext]_vars

\* Calls of merge_adjacent_boxes on bounded lists of boxes
SpecMergeInit == MergeInit /\ NmsIdle /\ DecIdle /\ NetIdle /\ RecIdle
    /\ EngIdle /\ InferIdle /\ AngleIdle /\ OriIdle /\ ExtIdle /\ DetIdle
    /\ CharsetIdle /\ ConfigIdle /\ LineIdle /\ IouIdle /\ ExpandIdle
    /\ FrameIdle /\ BackgroundIdle
SpecMergeOthers == <<nmsVars, decVars, net, recVars, engVars, infVars,
                      ctaVars, oriVars, extVars, detVars, csVars, cfgVars,
                      lineVars, iouVars, expVars, frmVars, bgVars>>
SpecMergeNext == MergeCall /\ UNCHANGED SpecMergeOthers
SpecMerge == SpecMergeInit /\ [][SpecMergeNext]_vars

\* Calls of group_boxes_by_line on bounded lists of boxes
SpecLinesInit == LineInit /\ NmsIdle /\ DecIdle /\ NetIdle /\ RecIdle
    /\ EngIdle /\ InferIdle /\ AngleIdle /\ OriIdle /\ ExtIdle /\ DetIdle
    /\ CharsetIdle /\ ConfigIdle /\ MergeIdle /\ IouIdle /\ ExpandIdle
    /\ FrameIdle /\ BackgroundIdle
SpecLinesOthers == <<nmsVars, decVars, net, recVars, engVars, infVars,
                      ctaVars, oriVars, extVars, detVars, csVars, cfgVars,
                      mrgVars, iouVars, expVars, frmVars, bgVars>>
SpecLinesNext == GroupBoxesByLineCall /\ UNCHANGED SpecLinesOthers
SpecLines == SpecLinesInit /\ [][SpecLinesNext]_vars

\* Calls of compute_iou on pairs of small rectangles
SpecIouInit == IouInit /\ NmsIdle /\ DecIdle /\ NetIdle /\ RecIdle /\ EngIdle
    /\ InferIdle /\ AngleIdle /\ OriIdle /\ ExtIdle /\ DetIdle /\ CharsetIdle
    /\ ConfigIdle /\ MergeIdle /\ LineIdle /\ ExpandIdle /\ FrameIdle
    /\ BackgroundIdle
SpecIouOthers == <<nmsVars, decVars, net, recVars, engVars, infVars, ctaVars,
                    oriVars, extVars, detVars, csVars, cfgVars, mrgVars,
                    lineVars, expVars, frmVars, bgVars>>
SpecIouNext == ComputeIouCall /\ UNCHANGED SpecIouOthers
SpecIou == SpecIouInit /\ [][SpecIouNext]_vars

\* detect_and_crop on the boxes detect returned for an image
SpecExpandInit == ExpandInit /\ NmsIdle /\ DecIdle /\ NetIdle /\ RecIdle
    /\ EngIdle /\ InferIdle /\ AngleIdle /\ OriIdle /\ ExtIdle /\ DetIdle
    /\ CharsetIdle /\ ConfigIdle /\ MergeIdle /\ LineIdle /\ IouIdle
    /\ FrameIdle /\ BackgroundIdle
SpecExpandOthers == <<nmsVars, decVars, net, recVars, engVars, infVars,
                       ctaVars, oriVars, extVars, detVars, csVars, cfgVars,
                       mrgVars, lineVars, iouVars, frmVars, bgVars>>
SpecExpandNext == DetectAndCropCall /\ UNCHANGED SpecExpandOthers
SpecExpand == SpecExpandInit /\ [][SpecExpandNext]_vars

\* Calls of recognize, from the caller's image to the boxes returned
SpecFrameInit == FrameInit /\ NmsIdle /\ DecIdle /\ NetIdle /\ RecIdle
    /\ EngIdle /\ InferIdle /\ AngleIdle /\ OriIdle /\ ExtIdle /\ DetIdle
    /\ CharsetIdle /\ ConfigIdle /\ MergeIdle /\ LineIdle /\ IouIdle
    /\ ExpandIdle /\ BackgroundIdle
SpecFrameOthers == <<nmsVars, decVars, net, recVars, engVars, infVars,
                      ctaVars, oriVars, extVars, detVars, csVars, cfgVars,
                      mrgVars, lineVars, iouVars, expVars, bgVars>>
SpecFrameNext == RecognizeBoxesCall /\ UNCHANGED SpecFrameOthers
SpecFrame == SpecFrameInit /\ [][SpecFrameNext]_vars

\* A replacement of the file of one media item, and the OCR tasks spawned for its files
SpecBackgroundInit == BackgroundInit /\ NmsIdle /\ DecIdle /\ NetIdle
    /\ RecIdle /\ EngIdle /\ InferIdle /\ AngleIdle /\ OriIdle /\ ExtIdle
    /\ DetIdle /\ CharsetIdle /\ ConfigIdle /\ MergeIdle /\ LineIdle
    /\ IouIdle /\ ExpandIdle /\ FrameIdle
SpecBackgroundOthers == <<nmsVars, decVars, net, recVars, engVars, infVars,
                           ctaVars, oriVars, extVars, detVars, csVars,
                           cfgVars, mrgVars, lineVars, iouVars, expVars,
                           frmVars>>
SpecBackgroundNext ==
    \/ \E i \in 1..Len(ocrTasks) : TaskRead(i) /\ UNCHANGED SpecBackgroundOthers
    \/ \E i \in 1..Len(ocrTasks) : TaskRecognize(i) /\ UNCHANGED SpecBackgroundOthers
    \/ \E i \in 1..Len(ocrTasks) : TaskUpdate(i) /\ UNCHANGED SpecBackgroundOthers
    \/ ReplaceSelect /\ UNCHANGED SpecBackgroundOthers
    \/ ReplacePut /\ UNCHANGED SpecBackgroundOthers
    \/ ReplaceDelete /\ UNCHANGED SpecBackgroundOthers
    \/ ReplaceUpdate /\ UNCHANGED SpecBackgroundOthers
    \/ ReplaceSpawn /\ UNCHANGED SpecBackgroundOthers
SpecBackground == SpecBackgroundInit /\ [][SpecBackgroundNext]_vars

(***************************************************************************)
(* Claims                                                                  *)
(***************************************************************************)
\* C1: nms is idempotent: nms applied to what nms returned gives the same
\* boxes in the same order.
C1_NmsIdempotent ==
    nmsPc = "done" => Nms(nmsOut, nmsThr) = nmsOut

\* A call that suppressed a box and kept at least two.
C1_Witness ==
    /\ nmsPc = "done"
    /\ Len(nmsOut) >= 2
    /\ Len(nmsOut) < Len(nmsBoxes)

\* What the claims about decode_output read off the decoding state: the best
\* class of step t, the first steps of the maximal runs of one non-blank
\* class, and the threshold the specification gives a character.
DecClassAt(t) == ArgMax(decRows[t])
DecScoreAt(t) == decRows[t][DecClassAt(t)]
DecRunStarts ==
    {t \in 1..Len(decRows) :
        /\ DecClassAt(t) # 0
        /\ (t = 1 \/ DecClassAt(t - 1) # DecClassAt(t))}
DecSpecThreshold(ch) ==
    IF ch \in Punctuations THEN decOpts.punct_min_score ELSE decOpts.min_score
DecCharAt(t) == Charset[DecClassAt(t) + 1]
\* The k-th member of a set of time steps, in time order
DecNth(S, k) == CHOOSE t \in S : Cardinality({u \in S : u <= t}) = k

\* Every non-blank step has a character of the charset and a score that
\* passes that character's threshold.
DecAllStepsPass ==
    \A t \in 1..Len(decRows) :
        DecClassAt(t) # 0 =>
            /\ DecClassAt(t) < Len(Charset)
            /\ DecScoreAt(t) >= DecSpecThreshold(DecCharAt(t))

\* C7: when every step's score passes the filter, greedy CTC decoding emits
\* one character per maximal run of equal non-blank classes, in time order:
\* contiguous equal classes give one character, the same class on both sides
\* of a blank gives two, and blank steps give none.
C7_CtcCollapse ==
    (decPc = "done" /\ DecAllStepsPass) =>
        /\ Len(decRes.text) = Cardinality(DecRunStarts)
        /\ \A k \in 1..Len(decRes.text) :
               decRes.text[k] = DecCharAt(DecNth(DecRunStarts, k))

\* The class of "a", a blank, the class of "a" again: decoded as "aa".
C7_Witness ==
    /\ decPc = "done"
    /\ DecAllStepsPass
    /\ Len(decRows) = 3
    /\ DecClassAt(1) = 1 /\ DecClassAt(2) = 0 /\ DecClassAt(3) = 1
    /\ decRes.text = <<"a", "a">>

\* The candidates of decode_output: the first step of each run whose class
\* has a character; the kept ones pass the character's threshold.
DecCandidates == {t \in DecRunStarts : DecClassAt(t) < Len(Charset)}
DecKept == {t \in DecCandidates : DecScoreAt(t) >= DecSpecThreshold(DecCharAt(t))}

\* C8: a candidate character is kept iff its score is >= punct_min_score for
\* a punctuation mark and >= min_score otherwise; the text is the kept
\* characters in time order, char_scores pairs each with its score, and the
\* confidence is the mean of the kept scores, 0 when none is kept.
C8_ScoreFilter ==
    decPc = "done" =>
        /\ Len(decRes.char_scores) = Cardinality(DecKept)
        /\ Len(decRes.text) = Len(decRes.char_scores)
        /\ \A k \in 1..Len(decRes.char_scores) :
               LET t == DecNth(DecKept, k) IN
               /\ decRes.char_scores[k] = <<DecCharAt(t), DecScoreAt(t)>>
               /\ decRes.text[k] = DecCharAt(t)
        /\ IF DecKept = {}
           THEN decRes.confidence[1] = 0
           ELSE decRes.confidence[1] * Cardinality(DecKept) =
                    decRes.confidence[2] *
                        SumSeq([k \in 1..Cardinality(DecKept) |->
                                   DecScoreAt(DecNth(DecKept, k))])

\* Under the default options a comma of score 0.10 is kept on its threshold
\* and an "a" of the same score is dropped; the confidence is 0.10.
C8_Witness ==
    /\ decPc = "done"
    /\ decOpts = RecOptionsDefault
    /\ Cardinality(DecCandidates) = 2
    /\ decRes.char_scores = <<<<",", 10>>>>
    /\ decRes.confidence = <<10, 1>>

\* The result the network's answer decodes to for image i padded with zeros
\* to width w
RecPaddedResult(i, w) ==
    DecodeRows([x \in 1..w |->
                   NetRowOf(net, IF x <= Len(recImages[i])
                                 THEN Normalize(recImages[i][x]) ELSE 0)],
               Charset, recOpts)

\* C4: a successful recognize_batch on N images returns exactly N results,
\* the i-th one decoded from the i-th image, on every dispatch path and
\* whatever batch dimension the network reports for a chunk's output.
C4_BatchOneToOne ==
    (recPc = "done" /\ recOut.ok) =>
        /\ Len(recOut.val) = Len(recImages)
        /\ \A i \in 1..Len(recImages) :
               \E w \in Len(recImages[i])..MaxWidthOf(recImages) :
                   recOut.val[i] = RecPaddedResult(i, w)

\* C5: recognize_batch yields for each image the text that recognize yields
\* for it alone, also when crops of different widths are padded into one
\* tensor (stated for the calls that return one result per image).
C5_BatchEqualsSingle ==
    (recPc = "done" /\ recOut.ok /\ Len(recOut.val) = Len(recImages)) =>
        \A i \in 1..Len(recImages) :
            LET alone == Recognize(net, recOpts, recImages[i]) IN
            /\ alone.ok
            /\ alone.val.text = recOut.val[i].text

\* What the claims about OcrEngine::recognize read off the engine's state:
\* the number of detected regions, the box of region i, and what
\* rec_model.recognize returns for the crop of region i alone.
EngRegions == 1..Len(engDetected.val)
EngBoxAt(i) == engDetected.val[i][2]
EngAlone(i) == Recognize(net, engConfig.rec_options, engDetected.val[i][1])
EngPassesFloor(rec) ==
    /\ rec.text # <<>>
    /\ rec.confidence[1] >= engConfig.min_result_confidence * rec.confidence[2]
EngReturned ==
    engPc = "done" /\ engDetected.ok /\ engDetected.val # <<>>

\* C2: on the parallel path (enable_parallel and more than 4 crops), whatever
\* the order in which the tasks finished, the returned list is the regions
\* that pass the filter, in detection order, each with the text and the
\* confidence recognized from its own crop and with its own box.
C2_ParallelKeepsDetectionOrder ==
    (EngReturned /\ EngParallelPath(engConfig, engDetected.val) /\ engOut.ok) =>
        LET passed == {i \in EngRegions : EngPassesFloor(EngAlone(i).val)} IN
        /\ Len(engOut.val) = Cardinality(passed)
        /\ \A j \in 1..Len(engOut.val) :
               LET i == DecNth(passed, j) IN
               engOut.val[j] = OcrResult_(EngAlone(i).val.text,
                                          EngAlone(i).val.confidence, EngBoxAt(i))

\* A parallel call whose last task finished first and whose second region,
\* alone of all, was filtered out.
C2_Witness ==
    /\ EngReturned
    /\ EngParallelPath(engConfig, engDetected.val)
    /\ engOut.ok
    /\ engOrder[1] = MaxCrops
    /\ Len(engOut.val) = MaxCrops - 1
    /\ ~EngPassesFloor(EngAlone(2).val)

\* C3: recognize is all-or-nothing: when the recognition of any region
\* fails, on the parallel path or on the batched or sequential one, the call
\* returns one error and no results; a call that returns results has had
\* every region recognized.
C3_AllOrNothing ==
    EngReturned =>
        /\ (\E i \in EngRegions : ~EngAlone(i).ok) =>
               /\ ~engOut.ok
               /\ DOMAIN engOut = {"ok", "err"}
               /\ \E i \in EngRegions : engOut = EngAlone(i)
        /\ engOut.ok => \A i \in EngRegions : EngAlone(i).ok

\* A parallel call in which one task failed after another had succeeded.
C3_Witness ==
    /\ EngReturned
    /\ ~engOut.ok
    /\ \E i, j \in DOMAIN engSlots :
           /\ engSlots[i].ok
           /\ ~engSlots[j].ok
           /\ \E a, b \in 1..Len(engOrder) :
                  a < b /\ engOrder[a] = i /\ engOrder[b] = j

\* C9: of the regions paired with a recognition result, recognize returns
\* exactly those whose text is non-empty and whose confidence is >=
\* min_result_confidence, in order, each with its box; with a floor of 0.6 a
\* result of confidence 0.55 is left out and one of 0.61 is returned; and
\* the call is Ok whenever the recognition step was.
C9_ResultFilter ==
    (EngReturned /\ engRec.ok) =>
        LET n == Min2(Len(engRec.val), Len(engDetected.val))
            passing == {k \in 1..n : EngPassesFloor(engRec.val[k])}
            boxesOut == {engOut.val[j].bbox : j \in 1..Len(engOut.val)}
        IN  /\ engOut.ok
            /\ Len(engOut.val) = Cardinality(passing)
            /\ \A j \in 1..Len(engOut.val) :
                   LET k == DecNth(passing, j) IN
                   engOut.val[j] = OcrResult_(engRec.val[k].text,
                                              engRec.val[k].confidence, EngBoxAt(k))
            /\ engConfig.min_result_confidence = 60 =>
                   \A k \in 1..n :
                       /\ engRec.val[k].confidence = <<55, 1>> =>
                              EngBoxAt(k) \notin boxesOut
                       /\ (engRec.val[k].text # <<>>
                              /\ engRec.val[k].confidence = <<61, 1>>) =>
                              EngBoxAt(k) \in boxesOut

\* A call with the floor at 0.6 whose two results have the confidences 0.55
\* and 0.61: the second alone is returned.
C9_Witness ==
    /\ EngReturned
    /\ engRec.ok
    /\ engConfig.min_result_confidence = 60
    /\ Len(engRec.val) = 2
    /\ engRec.val[1].confidence = <<55, 1>>
    /\ engRec.val[2].confidence = <<61, 1>>
    /\ engOut.ok
    /\ Len(engOut.val) = 1
    /\ engOut.val[1].bbox = EngBoxAt(2)

\* C10: when detection finds no region, recognize returns Ok of the empty
\* list and makes no call of the recognition model.
C10_NoDetections ==
    (engPc = "done" /\ engDetected = Ok(<<>>)) =>
        /\ engOut = Ok(<<>>)
        /\ engRecCalls = 0
        /\ engOrder = <<>>

\* A call that returned on an empty list of detections.
C10_Witness ==
    /\ engPc = "done"
    /\ engDetected = Ok(<<>>)
    /\ engOut = Ok(<<>>)

OriClassified == Classify(oriIn.config.ori_options, oriIn.answer)
OriTrusted ==
    /\ oriIn.has_ori_model
    /\ OriClassified.ok
    /\ OriClassified.val.confidence[1] * 100 >=
           oriIn.config.ori_min_confidence * OriClassified.val.confidence[2]

C12_ClassToAngle ==
    ctaPc = "done" =>
        /\ ctaOut \in Int
        /\ ctaArgs.class_idx < ctaArgs.num_classes =>
               ctaOut =
                   IF Len(ctaArgs.class_angles) = ctaArgs.num_classes
                   THEN ctaArgs.class_angles[ctaArgs.class_idx + 1]
                   ELSE IF ctaArgs.num_classes = 2
                   THEN <<0, 180>>[ctaArgs.class_idx + 1]
                   ELSE IF ctaArgs.num_classes = 4
                   THEN <<0, 90, 180, 270>>[ctaArgs.class_idx + 1]
                   ELSE ctaArgs.class_idx

\* Four classes with the table of two: class 3 is 270 degrees.
C12_Witness ==
    /\ ctaPc = "done"
    /\ ctaArgs = [num_classes |-> 4, class_idx |-> 3, class_angles |-> <<0, 180>>]
    /\ ctaOut = 270

(***************************************************************************)
(* Claims on extract_boxes_with_unclip (SpecExtract)                       *)
(***************************************************************************)
\* C13: every box returned by extract_boxes_with_unclip has a width and a
\* height above 0 and lies inside the original image: left >= 0, top >= 0,
\* left + width <= original_width, top + height <= original_height.
C13_BoxesInsideOriginal ==
    extPc = "done" =>
        \A i \in 1..Len(extOut) :
            LET r == extOut[i].rect IN
            /\ r.width > 0
            /\ r.height > 0
            /\ r.left >= 0
            /\ r.top >= 0
            /\ r.left + r.width <= extIn.original_width
            /\ r.top + r.height <= extIn.original_height

\* A call that returned a box reaching the right edge of the original image
\* and dropped the box of another contour, scaled to no width or height
C13_Witness ==
    /\ extPc = "done"
    /\ \E i \in 1..Len(extOut) :
           extOut[i].rect.left + extOut[i].rect.width = extIn.original_width
    /\ \E k \in 1..Len(extSteps) :
           extSteps[k].why = "none" /\ ~extSteps[k].kept

\* The call on the mask whose one blob covers the 10 by 5 pixels 5..14 by
\* 3..7, three pixels or more from every border, the whole mask valid
ExtTenByFiveCall ==
    /\ extIn.mask = MaskOf({1}, 255, 0)
    /\ extIn.valid_width = extIn.mask_width
    /\ extIn.valid_height = extIn.mask_height
    /\ extIn.unclip_ratio = <<3, 2>>

\* C14: for a filled blob covering 10 by 5 pixels away from the mask borders
\* and unclip_ratio 1.5, extraction uses area 50, perimeter 30 and the
\* expansion distance 2.5.
C14_ExpansionOfTenByFive ==
    (extPc = "done" /\ ExtTenByFiveCall) =>
        /\ Len(extSteps) = 1
        /\ extSteps[1].area = 50
        /\ extSteps[1].perimeter = 30
        /\ 2 * extSteps[1].expand_dist[1] = 5 * extSteps[1].expand_dist[2]

RatioLeq(a, b) == a[1] * b[2] <= b[1] * a[2]

RectCovers(a, b) ==
    /\ a.left <= b.left
    /\ a.top <= b.top
    /\ a.left + a.width >= b.left + b.width
    /\ a.top + a.height >= b.top + b.height

\* The call on the mask whose one blob covers the 11 by 6 pixels 3..13 by
\* 3..8, its contour bounds 10 and 5 apart, the whole mask valid
ExtBoundsTenByFiveCall ==
    /\ extIn.mask = MaskOf({2}, 255, 0)
    /\ extIn.valid_width = extIn.mask_width
    /\ extIn.valid_height = extIn.mask_height
    /\ extIn.unclip_ratio = <<3, 2>>

\* C14 (amended): with unclip_ratio 1.5, a blob whose contour bounds are 10
\* and 5 apart (covering 11 by 6 pixels) gets area 50, perimeter 30 and the
\* expansion distance 2.5; a blob covering 10 by 5 pixels is measured as 9
\* by 4 and gets area 36, perimeter 26 and the distance 36 * 1.5 / 26.
C14_ExpansionOfBoundsTenByFive ==
    /\ (extPc = "done" /\ ExtBoundsTenByFiveCall) =>
           /\ Len(extSteps) = 1
           /\ extSteps[1].box_width = 10
           /\ extSteps[1].box_height = 5
           /\ extSteps[1].area = 50
           /\ extSteps[1].perimeter = 30
           /\ 2 * extSteps[1].expand_dist[1] = 5 * extSteps[1].expand_dist[2]
           /\ extSteps[1].expanded = <<0, 0, 15, 10>>
    /\ (extPc = "done" /\ ExtTenByFiveCall) =>
           /\ Len(extSteps) = 1
           /\ extSteps[1].box_width = 9
           /\ extSteps[1].box_height = 4
           /\ extSteps[1].area = 36
           /\ extSteps[1].perimeter = 26
           /\ 26 * 2 * extSteps[1].expand_dist[1]
                  = 36 * 3 * extSteps[1].expand_dist[2]

\* The call on the blob with bounds 10 and 5 apart, its box returned
C14_Witness ==
    /\ extPc = "done"
    /\ ExtBoundsTenByFiveCall
    /\ Len(extOut) = 1
    /\ extSteps[1].area = 50

\* C15: for the contours, valid region and original size of a call and a
\* ratio r2 not below the call's unclip_ratio, the box a contour gets with r2
\* covers the box it got in the call.
C15_UnclipMonotonic ==
    extPc = "done" =>
        \A r2 \in UnclipRatios :
            RatioLeq(extIn.unclip_ratio, r2) =>
                LET steps2 == ExtractSteps(
                        extIn.mask, extIn.mask_width, extIn.mask_height,
                        extIn.valid_width, extIn.valid_height,
                        extIn.original_width, extIn.original_height,
                        extIn.min_area, r2)
                IN  \A i \in 1..Len(extSteps) :
                        extSteps[i].kept =>
                            /\ steps2[i].kept
                            /\ RectCovers(steps2[i].box.rect, extSteps[i].box.rect)

(***************************************************************************)
(* Claims on DetModel::detect and the rank of outputs (SpecDetect)         *)
(***************************************************************************)
\* A call of detect whose answer is an output of rank 4 with no score above
\* score_threshold
DetBlankCall ==
    /\ detIn.op = "detect"
    /\ detIn.answer.ok
    /\ Len(detIn.answer.val.shape) = 4
    /\ \A i \in 1..Len(detIn.answer.val.data) :
           detIn.answer.val.data[i] <= detIn.options.score_threshold

\* C16: when no value of the detection output mask is strictly above
\* score_threshold, detect returns a successful empty sequence of boxes.
C16_BlankGivesEmpty ==
    (detPc = "done" /\ DetBlankCall) => detOut = Ok(<<>>)

\* A blank call whose output holds a blob of scores equal to the threshold
C16_Witness ==
    /\ detPc = "done"
    /\ DetBlankCall
    /\ \E i \in 1..Len(detIn.answer.val.data) :
           detIn.answer.val.data[i] = detIn.options.score_threshold
    /\ detOut = Ok(<<>>)

\* C17: for an output whose rank is too low to interpret, detect (rank below
\* 4) and recognize (rank other than 2 or 3) return a PostprocessError to
\* the caller and never abort.
C17_LowRankIsPostprocessError ==
    (detPc = "done" /\ detIn.answer.ok) =>
        /\ (detIn.op = "detect" /\ Len(detIn.answer.val.shape) < 4)
               => detOut = Err("PostprocessError")
        /\ (detIn.op = "recognize" /\ detIn.answer.val.rank \notin {2, 3})
               => detOut = Err("PostprocessError")

(***************************************************************************)
(* Claims on the charset (SpecCharset)                                     *)
(***************************************************************************)
\* The characters of the call's data other than '\n' and '\r', in file order
CsFileChars == SelectSeq(FromUtf8(csIn.data).val, CharsetKeeps)

\* The data of the call is UTF-8 and holds a character that is no terminator
CsUsable == FromUtf8(csIn.data).ok /\ CsFileChars # <<>>

\* C18: parse_charset on UTF-8 data of n >= 1 characters other than line
\* terminators returns a table of length n + 2, the blank at index 0, the
\* file's characters in order at 1..n, the pad token at n + 1; on other data
\* it returns a CharsetError, and from_bytes_with_charset builds no model.
C18_ParseCharset ==
    /\ csPc = "parsed" =>
           IF CsUsable
           THEN /\ csOut.ok
                /\ Len(csOut.val) = Len(CsFileChars) + 2
                /\ csOut.val[1] = CharsetSpace
                /\ \A i \in 1..Len(CsFileChars) : csOut.val[i + 1] = CsFileChars[i]
                /\ csOut.val[Len(CsFileChars) + 2] = CharsetSpace
           ELSE csOut = Err("CharsetError")
    /\ (csPc = "built" /\ ~CsUsable) => ~csOut.ok

\* A table parsed from data that holds a terminator and a two-byte character
C18_Witness ==
    /\ csPc = "parsed"
    /\ csOut = Ok(<<CharsetSpace, 97, 228, CharsetSpace>>)
    /\ csIn.data = <<97, 10, 195, 164>>

(***************************************************************************)
(* Claims on the fork and join of the parallel path (SpecPool)             *)
(***************************************************************************)
\* One task a detected region and none spawned later, each run at most once,
\* and no task running or waiting once recognize has returned
PoolForkJoin ==
    /\ engPc \in {"par", "done"} =>
           /\ Len(engTasks) = Len(engDetected.val)
           /\ engRecCalls <= Len(engDetected.val)
           /\ \A a, b \in 1..Len(engOrder) : engOrder[a] = engOrder[b] => a = b
    /\ engPc = "done" =>
           \A i \in DOMAIN engTasks : engTasks[i] \in {"done", "skipped"}

\* C19: on the parallel path one recognition task is run per detected
\* region with no nested spawning, recognize returns only after every task
\* it started has finished, and under fair scheduling it does return.
C19_ForkJoinReturns ==
    /\ [](PoolForkJoin)
    /\ <>(engPc = "done")

\* A return with an error after a task failed while another was running and
\* a task was never started
C19_Witness ==
    /\ engPc = "done"
    /\ ~engOut.ok
    /\ \E i \in DOMAIN engTasks : engTasks[i] = "skipped"
    /\ \E k \in 1..Len(engOrder) :
           ~engSlots[engOrder[k]].ok /\ k < Len(engOrder)

(***************************************************************************)
(* Claims on the configuration (SpecConfig)                                *)
(***************************************************************************)
\* C20: a default-constructed configuration has thread count 4, the CPU
\* backend, orientation confidence floor 0.5, result confidence floor 0.5,
\* parallel enabled, detection max side length 960, unclip ratio 1.5, mask
\* threshold 0.3, recognition target height 48 and batch size 8.
C20_Defaults ==
    cfgPc = "new" =>
        /\ cfg.thread_count = 4
        /\ cfg.backend = "CPU"
        /\ cfg.ori_min_confidence = 50
        /\ cfg.min_result_confidence = 50
        /\ cfg.enable_parallel
        /\ cfg.det_options.max_side_len = 960
        /\ cfg.det_options.unclip_ratio = <<3, 2>>
        /\ cfg.det_options.score_threshold = 30
        /\ cfg.rec_options.target_height = 48
        /\ cfg.rec_options.batch_size = 8

(***************************************************************************)
(* Claims on merge_adjacent_boxes (SpecMerge)                              *)
(***************************************************************************)
\* C21: no two boxes returned by merge_adjacent_boxes can be merged (vertical
\* overlap and a horizontal gap of at most the threshold), and the function
\* applied to what it returned merges nothing.
C21_MergeFixedPoint ==
    mrgPc = "done" =>
        /\ \A i, j \in 1..Len(mrgOut) :
               i # j => ~CanMerge(mrgOut[i].rect, mrgOut[j].rect,
                                  mrgIn.distance_threshold)
        /\ Len(MergeAdjacentBoxes(mrgOut, mrgIn.distance_threshold)) = Len(mrgOut)

(***************************************************************************)
(* Further claims on nms (SpecNms)                                         *)
(***************************************************************************)
\* How often box b occurs in the list
NmsCount(list, b) == Cardinality({i \in 1..Len(list) : list[i] = b})

\* Kept box a and box b break one of the three bounds: IoU above the
\* threshold, more than 50% of b inside a, more than 70% of a inside b
NmsBoundBroken(a, b) ==
    \/ QGreater(ComputeIou(a.rect, b.rect), nmsThr[1], nmsThr[2])
    \/ 2 * Intersection(b.rect, a.rect) > Area(b)
    \/ 10 * Intersection(a.rect, b.rect) > 7 * Area(a)

\* C22: the output of nms holds boxes of the input, ordered by score and
\* then area, descending, the top-ranked box among them; no output box
\* breaks a bound with an output box before it; a box is dropped only when
\* a kept box that does not rank after it breaks a bound with it.
C22_NmsOutput ==
    nmsPc = "done" =>
        /\ \A k \in 1..Len(nmsOut) :
               NmsCount(nmsOut, nmsOut[k]) <= NmsCount(nmsBoxes, nmsOut[k])
        /\ \A a, b \in 1..Len(nmsOut) :
               a < b => /\ ~NmsBefore(nmsOut[b], nmsOut[a])
                        /\ ~NmsBoundBroken(nmsOut[a], nmsOut[b])
        /\ nmsBoxes # <<>> =>
               /\ nmsOut # <<>>
               /\ \A i \in 1..Len(nmsBoxes) : ~NmsBefore(nmsBoxes[i], nmsOut[1])
        /\ \A i \in 1..Len(nmsBoxes) :
               NmsCount(nmsOut, nmsBoxes[i]) < NmsCount(nmsBoxes, nmsBoxes[i]) =>
                   \E k \in 1..Len(nmsOut) :
                       /\ ~NmsBefore(nmsBoxes[i], nmsOut[k])
                       /\ NmsBoundBroken(nmsOut[k], nmsBoxes[i])
        /\ (\A i, j \in 1..Len(nmsBoxes) :
                i # j => Intersection(nmsBoxes[i].rect, nmsBoxes[j].rect) = 0)
               => Len(nmsOut) = Len(nmsBoxes)

\* A call that kept two boxes and dropped the box in which the first kept
\* box lies whole, the only bound that box broke
C22_Witness ==
    /\ nmsPc = "done"
    /\ Len(nmsBoxes) = 3
    /\ Len(nmsOut) = 2
    /\ \E i \in 1..3 :
           /\ NmsCount(nmsOut, nmsBoxes[i]) = 0
           /\ Intersection(nmsOut[1].rect, nmsBoxes[i].rect) = Area(nmsOut[1])
           /\ ~QGreater(ComputeIou(nmsOut[1].rect, nmsBoxes[i].rect),
                        nmsThr[1], nmsThr[2])
           /\ 2 * Intersection(nmsBoxes[i].rect, nmsOut[1].rect) <= Area(nmsBoxes[i])


(***************************************************************************)
(* Claims on the inference calls of recognize (SpecEngine)                 *)
(***************************************************************************)
\* The calls the strategy asks for on n crops: one crop each on the parallel
\* path, and when n <= 2 or batching is off; else the chunks of batch_size
\* consecutive crops, the last one holding what is left
InferPlan(config, n) ==
    IF (config.enable_parallel /\ n > ParallelThreshold)
           \/ n <= 2 \/ ~config.rec_options.enable_batch
    THEN [k \in 1..n |-> 1]
    ELSE LET size == config.rec_options.batch_size
             count == (n + size - 1) \div size
         IN  [k \in 1..count |-> Min2(size, n - (k - 1) * size)]

\* C23: for N >= 1 crops recognize makes N single-image inference calls on
\* the worker pool when enable_parallel and N > 4; otherwise N single-image
\* calls in order when N <= 2 or batching is off; otherwise one call per
\* chunk of at most batch_size consecutive crops, ceil(N / batch_size) calls,
\* a trailing chunk of one crop included.  A call that fails ends the run,
\* which has then made the first calls of that plan.
C23_InferenceCalls ==
    (engPc = "done" /\ engDetected.ok /\ Len(engDetected.val) >= 1) =>
        LET n == Len(engDetected.val)
            plan == InferPlan(engConfig, n)
        IN  /\ Len(engInfer) <= Len(plan)
            /\ engInfer = SubSeq(plan, 1, Len(engInfer))
            /\ engRec.ok => engInfer = plan
            /\ EngParallelPath(engConfig, engDetected.val) =>
                   /\ engRecCalls = Len(engInfer)
                   /\ Len(engInfer) = Len(engOrder)
            /\ ~EngParallelPath(engConfig, engDetected.val) => engOrder = <<>>

\* Five crops with the pool off and batches of two: three calls, the last
\* of one crop.
C23_Witness ==
    /\ engPc = "done"
    /\ engDetected.ok
    /\ Len(engDetected.val) = 5
    /\ ~engConfig.enable_parallel
    /\ engConfig.rec_options.enable_batch
    /\ engConfig.rec_options.batch_size = 2
    /\ engRec.ok
    /\ engInfer = <<2, 2, 1>>


(***************************************************************************)
(* Claims on the presets (SpecConfig)                                      *)
(***************************************************************************)
\* C24: the fast preset has a detection max_side_len below the default's and
\* a precision mode below the default's Normal.
C24_FastLowersBoth ==
    cfgPc = "fast" =>
        /\ cfg.det_options.max_side_len
               < OcrEngineConfigDefault.det_options.max_side_len
        /\ PrecisionLevel(cfg.precision_mode)
               < PrecisionLevel(OcrEngineConfigDefault.precision_mode)


(***************************************************************************)
(* Claims on group_boxes_by_line (SpecLines)                               *)
(***************************************************************************)
\* The input boxes in order of top (stable)
LineSorted == SortByTop(lineIn.boxes)

\* The place in that order of the first box of line i
LineStart(i) == 1 + SumSeq([j \in 1..(i - 1) |-> Len(lineOut[j])])

\* Box k of that order starts a line
LineStartsAt(k) == \E i \in 1..Len(lineOut) : LineStart(i) = k

\* The place of the box that started the line which the box before k is in
LineAnchor(k) ==
    CHOOSE a \in 1..(k - 1) :
        /\ LineStartsAt(a)
        /\ \A b \in 1..(k - 1) : LineStartsAt(b) => b <= a

\* The lines are a partition of the boxes: line i holds the next boxes in
\* order of top, sorted left to right; so the lines run top to bottom
LinePartition ==
    /\ SumSeq([j \in 1..Len(lineOut) |-> Len(lineOut[j])]) = Len(lineIn.boxes)
    /\ \A i \in 1..Len(lineOut) :
           /\ lineOut[i] # <<>>
           /\ lineOut[i] =
                  SortByLeft(SubSeq(LineSorted, LineStart(i),
                                    LineStart(i) + Len(lineOut[i]) - 1))
           /\ \A a, b \in 1..Len(lineOut[i]) :
                  a < b => BoxLeft(lineOut[i][a]) <= BoxLeft(lineOut[i][b])
    /\ \A i, j \in 1..Len(lineOut) :
           i < j => \A a \in 1..Len(lineOut[i]), b \in 1..Len(lineOut[j]) :
                        BoxTop(lineOut[i][a]) <= BoxTop(lineOut[j][b])

\* C25 as stated: the lines are such a partition, and walking the boxes in
\* order of top a box starts a new line exactly when its top differs by more
\* than line_threshold from the top of the box before it.
C25_NewLineByPreviousBox ==
    linePc = "done" =>
        /\ LinePartition
        /\ \A k \in 2..Len(LineSorted) :
               LineStartsAt(k) <=>
                   Abs(BoxTop(LineSorted[k]) - BoxTop(LineSorted[k - 1]))
                       > lineIn.line_threshold

\* C25 amended: the lines are such a partition, and walking the boxes in
\* order of top a box starts a new line exactly when its top differs by more
\* than line_threshold from the top of the box that started the current
\* line.
C25_NewLineByLineStart ==
    linePc = "done" =>
        /\ LinePartition
        /\ \A k \in 2..Len(LineSorted) :
               LineStartsAt(k) <=>
                   Abs(BoxTop(LineSorted[k]) - BoxTop(LineSorted[LineAnchor(k)]))
                       > lineIn.line_threshold

\* Tops 16, 0 and 8 with threshold 10: the box at 16 starts a second line,
\* 8 below the box before it and 16 below the one that started the line.
C25_Witness ==
    /\ linePc = "done"
    /\ lineIn.line_threshold = 10
    /\ lineIn.boxes = <<TextBox(Rect(0, 16, 50, 20), 90),
                        TextBox(Rect(60, 0, 50, 20), 90),
                        TextBox(Rect(0, 8, 50, 20), 90)>>
    /\ lineOut = <<<<TextBox(Rect(0, 8, 50, 20), 90),
                     TextBox(Rect(60, 0, 50, 20), 90)>>,
                   <<TextBox(Rect(0, 16, 50, 20), 90)>>>>


(***************************************************************************)
(* Claims on compute_iou (SpecIou)                                         *)
(***************************************************************************)
\* The unit cells a rectangle covers
IouCells(r) ==
    {<<x, y>> : x \in r.left..(r.left + r.width - 1),
                y \in r.top..(r.top + r.height - 1)}

\* C26: for rectangles with positive sizes compute_iou(a, b) equals
\* area(a /\ b) / (area(a) + area(b) - area(a /\ b)); it is symmetric in a
\* and b, lies in [0, 1], is 0 when the rectangles are disjoint or only
\* touch along an edge, and is 1 when a = b.
C26_IouIsIntersectionOverUnion ==
    iouPc = "done" =>
        LET a == iouIn.a
            b == iouIn.b
            inter == Cardinality(IouCells(a) \cap IouCells(b))
            areaA == Cardinality(IouCells(a))
            areaB == Cardinality(IouCells(b))
        IN  /\ iouOut[2] > 0
            /\ iouOut[1] * (areaA + areaB - inter) = inter * iouOut[2]
            /\ iouOut = ComputeIou(b, a)
            /\ 0 <= iouOut[1] /\ iouOut[1] <= iouOut[2]
            /\ inter = 0 => iouOut[1] = 0
            /\ a = b => iouOut[1] = iouOut[2]

\* Two rectangles that overlap in part: 2 cells of the 6 + 4 - 2 = 8 covered.
C26_Witness ==
    /\ iouPc = "done"
    /\ iouIn = [a |-> Rect(0, 0, 3, 2), b |-> Rect(2, 0, 2, 2)]
    /\ iouOut = <<2, 8>>


(***************************************************************************)
(* Claims on expand and detect_and_crop (SpecExpand)                       *)
(***************************************************************************)
\* C27: for a box inside the W x H image expand moves every side outward by
\* border, clamped to the image: the result covers the box, lies within
\* [0, W] x [0, H], has positive width and height and keeps the score; and
\* detect_and_crop returns it with a crop of the same size.
C27_ExpandClamped ==
    expPc = "done" =>
        /\ Len(expOut) = Len(expIn.boxes)
        /\ \A i \in 1..Len(expOut) :
               LET b == expIn.boxes[i].rect
                   e == expOut[i][2].rect
                   crop == expOut[i][1]
                   border == expIn.box_border
               IN  /\ e.left = Max2(b.left - border, 0)
                   /\ e.top = Max2(b.top - border, 0)
                   /\ e.left + e.width = Min2(b.left + b.width + border, expIn.width)
                   /\ e.top + e.height = Min2(b.top + b.height + border, expIn.height)
                   /\ e.left <= b.left /\ b.left + b.width <= e.left + e.width
                   /\ e.top <= b.top /\ b.top + b.height <= e.top + e.height
                   /\ 0 <= e.left /\ e.left + e.width <= expIn.width
                   /\ 0 <= e.top /\ e.top + e.height <= expIn.height
                   /\ e.width > 0 /\ e.height > 0
                   /\ expOut[i][2].score = expIn.boxes[i].score
                   /\ crop.width = e.width /\ crop.height = e.height

\* A box one pixel from the left and top borders and in reach of the right
\* one, expanded by the default border 5: cut on three sides.
C27_Witness ==
    /\ expPc = "done"
    /\ expIn = [width |-> 8, height |-> 6,
                boxes |-> <<TextBox(Rect(1, 1, 4, 1), 90)>>, box_border |-> 5]
    /\ expOut = <<<<[width |-> 8, height |-> 6], TextBox(Rect(0, 0, 8, 6), 90)>>>>


(***************************************************************************)
(* Claims on the frame of the boxes recognize returns (SpecFrame)          *)
(***************************************************************************)
\* C28: every box in the result of recognize lies within the image the
\* caller passed in (left + width <= its width, top + height <= its
\* height), also when orientation correction turned the image by 90 or 270
\* degrees before detection.
C28_BoxesInCallerImage ==
    frmPc = "done" =>
        \A i \in 1..Len(frmOut) :
            LET rect == frmOut[i].bbox.rect IN
            /\ rect.left + rect.width <= frmIn.image.width
            /\ rect.top + rect.height <= frmIn.image.height


(***************************************************************************)
(* Further claims on decode_output (SpecDecode)                            *)
(***************************************************************************)
\* A step passes when its class has a character whose threshold its score
\* reaches
DecStepPasses(t) ==
    /\ DecClassAt(t) # 0
    /\ DecClassAt(t) < Len(Charset)
    /\ DecScoreAt(t) >= DecSpecThreshold(DecCharAt(t))

\* The first step of the run of equal classes that step t is in
DecRunFirst(t) ==
    CHOOSE s \in 1..t :
        /\ \A u \in s..t : DecClassAt(u) = DecClassAt(t)
        /\ (s = 1 \/ DecClassAt(s - 1) # DecClassAt(t))

\* The steps that emit when the previous class is the argmax of the step
\* before, emitted or not: the first steps of the runs, if they pass
DecEmitting ==
    {t \in 1..Len(decRows) : DecRunFirst(t) = t /\ DecStepPasses(t)}

\* The later steps of a run that pass although the run's first step does not
DecSuppressedLate ==
    {t \in 1..Len(decRows) :
        /\ DecRunFirst(t) # t
        /\ DecStepPasses(t)
        /\ ~DecStepPasses(DecRunFirst(t))}

\* C29: the previous class is the argmax of the step before whether or not
\* that step emitted: a step dropped by the score filter, or of a class
\* outside the charset, still suppresses the following steps of its class,
\* so a run emits a character only if its first step passes the filter, and
\* the character carries the first step's score.
C29_PrevIsPrecedingArgmax ==
    decPc = "done" =>
        /\ Len(decRes.char_scores) = Cardinality(DecEmitting)
        /\ \A k \in 1..Len(decRes.char_scores) :
               LET t == DecNth(DecEmitting, k) IN
               /\ decRes.char_scores[k][1] = DecCharAt(t)
               /\ decRes.char_scores[k][2] = DecScoreAt(DecRunFirst(t))
        /\ (\A t \in 1..Len(decRows) : DecClassAt(t) # 0 => ~DecStepPasses(DecRunFirst(t)))
               => decRes.text = <<>>

\* "a" at 0.05, dropped, then "a" at 0.30, then "," at 0.10: the second
\* "a" is suppressed although it passes, and only the comma is emitted.
C29_Witness ==
    /\ decPc = "done"
    /\ decOpts = RecOptionsDefault
    /\ Len(decRows) = 3
    /\ DecClassAt(1) = 1 /\ DecScoreAt(1) = 5
    /\ DecClassAt(2) = 1 /\ DecScoreAt(2) = 30
    /\ DecClassAt(3) = 2 /\ DecScoreAt(3) = 10
    /\ DecSuppressedLate = {2}
    /\ decRes.char_scores = <<<<",", 10>>>>


(***************************************************************************)
(* Claims on the background OCR of the host application (SpecBackground)   *)
(***************************************************************************)
\* C30: once the replacement has completed and every background OCR task
\* has finished, the stored ocr_text is the text recognized from the current
\* file (NULL when nothing was recognized), in every interleaving of the
\* replacement with the task spawned for the previous file.
C30_OcrTextOfCurrentFile ==
    (rplPc = "done" /\ \A i \in 1..Len(ocrTasks) : ocrTasks[i].pc = "done") =>
        mediaRow.ocr_text = ocrTexts[mediaRow.file_path]

====
